---- MODULE Spec2Model ----
(***************************************************************************)
(* Caption production pipeline of subpro2: the job registry and worker of  *)
(* server.py, and the pipeline, transcription retry heuristic and burn-in  *)
(* cascade of script.py.                                                   *)
(*                                                                         *)
(* Log-probabilities are kept in tenths (-8 stands for -0.8), so that the  *)
(* comparisons of means are exact integer comparisons.                     *)
(***************************************************************************)
EXTENDS Integers, Sequences, FiniteSets, TLC

VARIABLES
    processing_jobs,  \* server.py: the process-wide dict job_id -> job record
    tracker,          \* the ProgressTracker object of each worker
    pc,               \* position of each job's worker thread
    req,              \* the request parameters a job was accepted with
    vp,               \* the VideoProcessor of the run (tool availability)
    tl,               \* locals of transcribe_audio_local
    ret,              \* value returned by process_video_with_captions
    fs,               \* files of the job's output directory
    temp_srt,         \* uploads/temp_subtitles.srt: "none" or the job whose copy it holds
    bl,               \* locals of burn_subtitles_to_video / create_video_with_subtitles
    burnLog,          \* transcoder invocations made by the current burn-in, in order
    engineLog,        \* Transcription Engine calls made by the run, in order
    extractLog,       \* audio extraction attempts made by the run, in order
    stageLog,         \* highest stage rank written to the job record so far
    response          \* the last response of get_job_status, and the id it was for

vars == <<processing_jobs, tracker, pc, req, vp, tl, ret, fs, temp_srt, bl,
          burnLog, engineLog, extractLog, stageLog, response>>

\* the state of the workers; a status poll leaves it unchanged
workerVars == <<processing_jobs, tracker, pc, req, vp, tl, ret, fs, temp_srt, bl,
                burnLog, engineLog, extractLog, stageLog>>

Jobs == {"j1", "j2"}

-----------------------------------------------------------------------------
(* Bounds of the model *)

\* longest segment list the Transcription Engine returns in SpecTranscribe
MaxSegs == 2

-----------------------------------------------------------------------------
(* Policy constants of script.py, in tenths *)

\* avg_logprob < -0.8
LowConfidenceMean == -8
\* segment.get('avg_logprob', 0) < -1.5
HallucinationLogprob == -15

-----------------------------------------------------------------------------
(* Progress messages.  A message is its leading pictograph and its text;   *)
(* the two substring tests of progress_callback are kept as the sets of    *)
(* texts that contain the substring.                                       *)

Msg(icon, text) == [icon |-> icon, text |-> text]

StartingTranscriptionTexts == {"Starting transcription with model"}
CompletedTexts == {"Transcription completed. Processing segments",
                   "Video captioning process completed"}

\* server.py progress_callback: the step a message is parsed to
CallbackStep(m) ==
    IF m.icon = "music" THEN "Extracting Audio"
    ELSE IF m.icon \in {"magnifier", "globe"} THEN "Language Detection"
    ELSE IF m.icon = "microphone" THEN
        IF m.text \in StartingTranscriptionTexts THEN "Transcribing Audio"
        ELSE IF m.text \in CompletedTexts THEN "Transcription Complete"
        ELSE "Processing"
    ELSE IF m.icon = "fire" THEN "Burning Subtitles"
    ELSE IF m.icon = "check" THEN "Complete"
    ELSE "Processing"

\* server.py progress_callback: the progress a message is parsed to; old when None
CallbackProgress(m, old) ==
    IF m.icon = "music" THEN 25
    ELSE IF m.icon \in {"magnifier", "globe"} THEN 35
    ELSE IF m.icon = "microphone" THEN
        IF m.text \in StartingTranscriptionTexts THEN 45
        ELSE IF m.text \in CompletedTexts THEN 75
        ELSE old
    ELSE IF m.icon = "fire" THEN 85
    ELSE IF m.icon = "check" THEN 100
    ELSE old

\* Stage of the job state machine a recorded step belongs to; 0: none
\* (the generic step "Processing").
StageRank(step) ==
    CASE step = "Initializing" -> 1
      [] step = "Extracting Audio" -> 2
      [] step = "Language Detection" -> 3
      [] step \in {"Transcribing Audio", "Transcription Complete"} -> 4
      [] step = "Burning Subtitles" -> 6
      [] step \in {"Complete", "Completed", "Error"} -> 7
      [] OTHER -> 0

Max(a, b) == IF a >= b THEN a ELSE b

-----------------------------------------------------------------------------
(* server.py: job records and ProgressTracker *)

NewTracker ==
    [progress |-> 0, current_step |-> "", message |-> "",
     completed |-> FALSE, error |-> "None"]

\* the record process_video stores at acceptance; keys a record does not
\* hold yet read as "None", as dict.get does
NewJobRecord ==
    [progress |-> 0, current_step |-> "Initializing",
     message |-> "Starting video processing",
     completed |-> FALSE, error |-> "None",
     srt_content |-> "None", srt_path |-> "None",
     video_with_subs_path |-> "None"]

\* ProgressTracker.update: the tracker's own fields after the call
TrackerAfter(t, step, message, progress) ==
    [t EXCEPT !.current_step = step, !.message = message, !.progress = progress]

\* an update that leaves the error out of what it writes
RecordAfterWithoutError(r, t) ==
    [r EXCEPT !.progress = t.progress, !.current_step = t.current_step,
              !.message = t.message, !.completed = t.completed,
              !.error = "None"]

\* ProgressTracker.update: the five keys it writes into the job record
RecordAfter(r, t) ==
    [r EXCEPT !.progress = t.progress, !.current_step = t.current_step,
              !.message = t.message, !.completed = t.completed,
              !.error = t.error]

\* an update that writes the tracker's fields into every record
UpdateAll(j, step, message, progress) ==
    LET t == TrackerAfter(tracker[j], step, message, progress)
    IN /\ tracker' = [tracker EXCEPT ![j] = t]
       /\ processing_jobs' =
            [k \in DOMAIN processing_jobs \cup {j} |->
                RecordAfter(IF k \in DOMAIN processing_jobs THEN processing_jobs[k]
                            ELSE NewJobRecord, t)]
       /\ stageLog' = [stageLog EXCEPT ![j] = Max(@, StageRank(step))]

\* ProgressTracker.update(step, message, progress) of job j
Update(j, step, message, progress) ==
    LET t == TrackerAfter(tracker[j], step, message, progress)
        r == IF j \in DOMAIN processing_jobs THEN processing_jobs[j]
             ELSE NewJobRecord
    IN /\ tracker' = [tracker EXCEPT ![j] = t]
       /\ processing_jobs' =
            [k \in DOMAIN processing_jobs \cup {j} |->
                IF k = j THEN RecordAfter(r, t) ELSE processing_jobs[k]]
       /\ stageLog' = [stageLog EXCEPT ![j] = Max(@, StageRank(step))]

\* progress_callback(message) of job j
Callback(j, m) ==
    Update(j, CallbackStep(m), m.text, CallbackProgress(m, tracker[j].progress))

-----------------------------------------------------------------------------
(* Text.  A text is a sequence of characters; the alphabet keeps one or    *)
(* two characters of every class the regular expressions of script.py      *)
(* distinguish.  "dv" is a character of the Devanagari block.              *)

LowerChars == {"a", "n"}
UpperChars == {"A", "N"}
DigitChars == {"1"}
SentenceChars == {".", "!", "?"}
PunctChars == SentenceChars \cup {","}
SpaceChars == {" "}
DevanagariChars == {"dv"}

\* str.upper on one character
Upper(c) == IF c = "a" THEN "A" ELSE IF c = "n" THEN "N" ELSE c

\* \w of a Python 3 str pattern: letters of any script, digits, underscore
IsWord(c) == c \in LowerChars \cup UpperChars \cup DigitChars \cup DevanagariChars

RECURSIVE LStrip(_, _)
LStrip(s, chars) ==
    IF s # <<>> /\ Head(s) \in chars THEN LStrip(Tail(s), chars) ELSE s

RECURSIVE RStrip(_, _)
RStrip(s, chars) ==
    IF s # <<>> /\ s[Len(s)] \in chars
    THEN RStrip(SubSeq(s, 1, Len(s) - 1), chars) ELSE s

\* str.strip(chars); str.strip() is StripChars(s, SpaceChars)
StripChars(s, chars) == RStrip(LStrip(s, chars), chars)

Strip(s) == StripChars(s, SpaceChars)

\* number of leading characters of s that are in chars
RECURSIVE Span(_, _)
Span(s, chars) ==
    IF s # <<>> /\ Head(s) \in chars THEN 1 + Span(Tail(s), chars) ELSE 0

Drop(s, n) == SubSeq(s, n + 1, Len(s))
Take(s, n) == SubSeq(s, 1, n)

IsPrefix(p, s) == Len(p) <= Len(s) /\ Take(s, Len(p)) = p

\* str.replace(old, new): leftmost non-overlapping occurrences
RECURSIVE Replace(_, _, _)
Replace(s, old, new) ==
    IF s = <<>> THEN <<>>
    ELSE IF IsPrefix(old, s) THEN new \o Replace(Drop(s, Len(old)), old, new)
    ELSE <<Head(s)>> \o Replace(Tail(s), old, new)

\* re.sub(r'\s+', ' ', text)
RECURSIVE CollapseSpaces(_)
CollapseSpaces(s) ==
    IF s = <<>> THEN <<>>
    ELSE IF Head(s) \in SpaceChars
         THEN <<" ">> \o CollapseSpaces(Drop(s, Span(s, SpaceChars)))
         ELSE <<Head(s)>> \o CollapseSpaces(Tail(s))

\* re.sub(r'([.!?])\s*([.!?])+', r'\1', text)
RECURSIVE DropRepeatedPunct(_)
DropRepeatedPunct(s) ==
    IF s = <<>> THEN <<>>
    ELSE IF Head(s) \in SentenceChars
         THEN LET afterWs == Drop(Tail(s), Span(Tail(s), SpaceChars))
                  n == Span(afterWs, SentenceChars)
              IN IF n > 0
                 THEN <<Head(s)>> \o DropRepeatedPunct(Drop(afterWs, n))
                 ELSE <<Head(s)>> \o DropRepeatedPunct(Tail(s))
         ELSE <<Head(s)>> \o DropRepeatedPunct(Tail(s))

\* one piece of re.split that is no separator: stripped and capitalized
\* unless it is blank
CapitalizePiece(piece) ==
    LET t == Strip(piece)
    IN IF t = <<>> THEN piece ELSE <<Upper(Head(t))>> \o Tail(t)

\* number of leading characters of s that are not in chars
RECURSIVE SpanNot(_, _)
SpanNot(s, chars) ==
    IF s # <<>> /\ Head(s) \notin chars THEN 1 + SpanNot(Tail(s), chars) ELSE 0

\* the loop over re.split(r'([.!?]\s*)', text) and the join
RECURSIVE CapitalizeSentences(_)
CapitalizeSentences(s) ==
    IF s = <<>> THEN <<>>
    ELSE LET n == SpanNot(s, SentenceChars)
             rest == Drop(s, n)
         IN IF rest = <<>> THEN CapitalizePiece(Take(s, n))
            ELSE LET k == 1 + Span(Tail(rest), SpaceChars)
                 IN CapitalizePiece(Take(s, n)) \o Take(rest, k)
                    \o CapitalizeSentences(Drop(rest, k))

\* the one entry of the corrections table that the alphabet can spell:
\* 'aa na' -> 'aana'
ApplyCorrections(s) ==
    Replace(s, <<"a", "a", " ", "n", "a">>, <<"a", "a", "n", "a">>)

\* LocalWhisperTools._fix_hindi_hinglish_errors
FixHindiHinglishErrors(text) ==
    Strip(CapitalizeSentences(DropRepeatedPunct(CollapseSpaces(ApplyCorrections(text)))))

\* re.sub(r'\s*([,.!?])\s*', r'\1 ', text)
RECURSIVE SpacePunct(_)
SpacePunct(s) ==
    IF s = <<>> THEN <<>>
    ELSE LET afterWs == Drop(s, Span(s, SpaceChars))
         IN IF afterWs # <<>> /\ Head(afterWs) \in PunctChars
            THEN <<Head(afterWs), " ">>
                 \o SpacePunct(Drop(Tail(afterWs), Span(Tail(afterWs), SpaceChars)))
            ELSE <<Head(s)>> \o SpacePunct(Tail(s))

\* re.sub(r'\s+([,.!?])', r'\1', text)
RECURSIVE UnspacePunct(_)
UnspacePunct(s) ==
    IF s = <<>> THEN <<>>
    ELSE LET n == Span(s, SpaceChars)
             afterWs == Drop(s, n)
         IN IF n > 0 /\ afterWs # <<>> /\ Head(afterWs) \in PunctChars
            THEN <<Head(afterWs)>> \o UnspacePunct(Tail(afterWs))
            ELSE <<Head(s)>> \o UnspacePunct(Tail(s))

\* re.sub(r'([.!?]\s+)([a-z])', upper of group 2, text)
RECURSIVE CapitalizeAfterPunct(_)
CapitalizeAfterPunct(s) ==
    IF s = <<>> THEN <<>>
    ELSE IF Head(s) \in SentenceChars
         THEN LET n == Span(Tail(s), SpaceChars)
                  after == Drop(Tail(s), n)
              IN IF n > 0 /\ after # <<>> /\ Head(after) \in LowerChars
                 THEN Take(s, n + 1) \o <<Upper(Head(after))>>
                      \o CapitalizeAfterPunct(Tail(after))
                 ELSE <<Head(s)>> \o CapitalizeAfterPunct(Tail(s))
         ELSE <<Head(s)>> \o CapitalizeAfterPunct(Tail(s))

\* LocalWhisperTools._clean_subtitle_text
CleanSubtitleText(text) ==
    CapitalizeAfterPunct(
        StripChars(UnspacePunct(SpacePunct(CollapseSpaces(text))),
                   SpaceChars \cup PunctChars))

-----------------------------------------------------------------------------
(* Segments and the subtitle serializer.  A segment is                     *)
(* [start, end, text, avg_logprob]; start and end are in milliseconds.     *)

\* a start or end that is no number (None, a string): the one value of the
\* model's times that isinstance(seconds, (int, float)) refuses
NotANumber == 2147483647

\* the times of the model, in milliseconds, at which binary floating point
\* makes int((seconds % 1) * 1000) one less than the millisecond count, as
\* (1.001 % 1) * 1000 = 0.9999999999998899; at every other time of the model
\* (0, 999, 1500, 3600000, 360000999) the field is exact
TruncatedTimes == {1001, 1003, 3599999, 360000001}

\* a formatter whose minutes field does not wrap at the hour
FormatTimestampNoWrap(t) ==
    LET ms == IF t = NotANumber \/ t < 0 THEN 0 ELSE t
    IN [hours |-> ms \div 3600000,
        minutes |-> ms \div 60000,
        secs |-> (ms % 60000) \div 1000,
        millisecs |-> (ms % 1000) - (IF ms \in TruncatedTimes THEN 1 ELSE 0)]

\* a formatter without the validation of its argument
FormatTimestampUnchecked(t) ==
    [hours |-> t \div 3600000,
     minutes |-> (t % 3600000) \div 60000,
     secs |-> (t % 60000) \div 1000,
     millisecs |-> t % 1000]

\* LocalWhisperTools._format_timestamp, for a time in whole milliseconds: the
\* fields of HH:MM:SS,mmm.  A time that is negative or no number is replaced
\* by 0; the hours field is not bounded.
FormatTimestamp(t) ==
    LET ms == IF t = NotANumber \/ t < 0 THEN 0 ELSE t
    IN [hours |-> ms \div 3600000,
        minutes |-> (ms % 3600000) \div 60000,
        secs |-> (ms % 60000) \div 1000,
        millisecs |-> (ms % 1000) - (IF ms \in TruncatedTimes THEN 1 ELSE 0)]

\* a confidence test applied whatever the language
IsHallucinationAnyLanguage(language, seg) == seg.avg_logprob < HallucinationLogprob

\* the confidence test of _post_process_hindi_hinglish
IsHallucination(language, seg) ==
    language = "hi" /\ seg.avg_logprob < HallucinationLogprob

\* the loop of _post_process_hindi_hinglish over result['segments']
RECURSIVE ProcessSegments(_, _)
ProcessSegments(segs, language) ==
    IF segs = <<>> THEN <<>>
    ELSE LET seg == Head(segs)
             text == Strip(seg.text)
             rest == ProcessSegments(Tail(segs), language)
         IN IF text = <<>> THEN rest
            ELSE IF IsHallucination(language, seg) THEN rest
            ELSE <<[seg EXCEPT !.text = FixHindiHinglishErrors(text)]>> \o rest

\* LocalWhisperTools._post_process_hindi_hinglish
PostProcessHindiHinglish(result, language) ==
    IF ~result.has_segments THEN result
    ELSE [result EXCEPT !.segments = ProcessSegments(result.segments, language)]

HasDevanagari(text) == \E i \in 1..Len(text) : text[i] \in DevanagariChars

\* re.match(r'^[\s\d\W]+$', text) and not re.search(r'[\u0900-\u097F\w]', text)
IsPunctuationOnly(text) ==
    /\ text # <<>>
    /\ \A i \in 1..Len(text) : text[i] \in DigitChars \/ ~IsWord(text[i])
    /\ ~\E i \in 1..Len(text) : text[i] \in DevanagariChars \/ IsWord(text[i])

\* a serializer without filters
IsNoiseNever(text) == FALSE

\* a serializer whose length filter makes no exception for Devanagari
IsNoiseShort(text) == Len(text) < 3 \/ IsPunctuationOnly(text)

\* the two noise filters of _convert_to_srt, on the cleaned text
IsNoise(text) ==
    \/ Len(text) < 1
    \/ (Len(text) < 3 /\ ~HasDevanagari(text))
    \/ IsPunctuationOnly(text)

\* a loop that numbers an entry by the position of its segment
RECURSIVE ConvertSegmentsByIndex(_, _)
ConvertSegmentsByIndex(segs, counter) ==
    IF segs = <<>> THEN <<>>
    ELSE LET seg == Head(segs)
             text == Strip(seg.text)
             cleaned == CleanSubtitleText(text)
         IN IF text = <<>> \/ IsNoise(cleaned)
            THEN ConvertSegmentsByIndex(Tail(segs), counter + 1)
            ELSE <<[number |-> counter,
                    start |-> FormatTimestamp(seg.start),
                    end |-> FormatTimestamp(seg.end),
                    text |-> cleaned]>>
                 \o ConvertSegmentsByIndex(Tail(segs), counter + 1)

\* the loop of _convert_to_srt; counter is segment_counter
RECURSIVE ConvertSegments(_, _)
ConvertSegments(segs, counter) ==
    IF segs = <<>> THEN <<>>
    ELSE LET seg == Head(segs)
             text == Strip(seg.text)
             cleaned == CleanSubtitleText(text)
         IN IF text = <<>> \/ IsNoise(cleaned)
            THEN ConvertSegments(Tail(segs), counter)
            ELSE <<[number |-> counter,
                    start |-> FormatTimestamp(seg.start),
                    end |-> FormatTimestamp(seg.end),
                    text |-> cleaned]>>
                 \o ConvertSegments(Tail(segs), counter + 1)

\* LocalWhisperTools._convert_to_srt: the subtitle document as its entries
ConvertToSrt(result) ==
    IF ~result.has_segments THEN <<>> ELSE ConvertSegments(result.segments, 1)

\* sum(segment.get('avg_logprob', -1.0) for segment in result.get('segments', []))
RECURSIVE SumLogprob(_)
SumLogprob(segs) ==
    IF segs = <<>> THEN 0 ELSE Head(segs).avg_logprob + SumLogprob(Tail(segs))

\* max(len(result.get('segments', [])), 1)
MeanDivisor(result) == IF Len(result.segments) > 1 THEN Len(result.segments) ELSE 1

\* avg_logprob < -0.8: the mean of the result's segment log-probabilities
\* is below the low-confidence threshold
IsLowConfidence(result) ==
    SumLogprob(result.segments) < LowConfidenceMean * MeanDivisor(result)

\* a choice that also adopts a retry of equal confidence
HasAtLeastConfidence(alt, result) ==
    SumLogprob(alt.segments) * MeanDivisor(result)
        >= SumLogprob(result.segments) * MeanDivisor(alt)

\* avg_logprob_alt > avg_logprob
HasBetterConfidence(alt, result) ==
    SumLogprob(alt.segments) * MeanDivisor(result)
        > SumLogprob(result.segments) * MeanDivisor(alt)

\* a test that retries a low-confidence result of any language
ShouldRetryAnyLanguage(result, language) == IsLowConfidence(result)

\* if avg_logprob < -0.8 and language == 'hi'
ShouldRetry(result, language) == IsLowConfidence(result) /\ language = "hi"

\* the result that goes on to post-processing after the retry pass
PickResult(result, alt) == IF HasBetterConfidence(alt, result) THEN alt ELSE result

\* a table that gives mixed speech the English model
LanguageCodeLatin(type) == IF type = "hindi" THEN "hi" ELSE "en"

\* LANGUAGE_CONFIGS[type]['code']
LanguageCode(type) == IF type = "english" THEN "en" ELSE "hi"

\* a resolution that passes every explicit language on as given
MapLanguageVerbatim(language) == language

\* language_mapping.get(language.lower(), language)
MapLanguage(language) ==
    CASE language = "hindi" -> "hi"
      [] language = "hinglish" -> "hi"
      [] language = "english" -> "en"
      [] OTHER -> language

\* a decision that trusts the engine's language tag alone
DetectLanguageTypeByTag(sample) ==
    IF sample.g = "hi"
    THEN IF 10 * sample.script > 3 * sample.len THEN "hindi" ELSE "hinglish"
    ELSE IF sample.words > 3 \/ sample.token THEN "hinglish"
    ELSE "english"

\* the decision of detect_language_type on a sample: g the engine's language
\* tag, len the length of the sample text, script the number of Devanagari
\* characters, words the number of lexicon matches, token whether one of
\* hai/kar/kya/kaise/acha/bura occurs
DetectLanguageType(sample) ==
    IF sample.g = "hi" \/ sample.script > 10
    THEN IF 10 * sample.script > 3 * sample.len THEN "hindi" ELSE "hinglish"
    ELSE IF sample.words > 3 \/ sample.token THEN "hinglish"
    ELSE "english"

-----------------------------------------------------------------------------
(* Values of locals that are not assigned yet *)

NoResult == [has_segments |-> FALSE, segments |-> <<>>]

\* the quick pass before it returned: quick_result.get('language', 'en') and
\* quick_result.get('text', '') of a result without either key
NoSample == [g |-> "en", len |-> 0, script |-> 0, words |-> 0, token |-> FALSE]

NewLocals ==
    [language |-> "None", sample |-> NoSample, result |-> NoResult,
     result_alt |-> NoResult, first |-> NoResult, retried |-> FALSE,
     srt_content |-> <<>>, error |-> "None"]

NewReturn == [srt_path |-> "None", video_with_subs_path |-> "None", message |-> "None"]

\* extracted_audio.wav, captions.srt (and its entries), captions.ass (with
\* the primary colour of its style and its Dialogue events), the output
\* video ("none", "empty" or "full")
NewFiles ==
    [audio |-> FALSE, srt_exists |-> FALSE, srt |-> <<>>, ass |-> FALSE,
     primary |-> <<>>, events |-> <<>>, out |-> "none"]

\* exit is the return code of the co-located-file run, -1 before it
NewBurn == [exit |-> -1, success |-> FALSE, returned |-> FALSE]

NoTranscoder == [ffmpeg_available |-> FALSE, moviepy_available |-> FALSE]

Goto(j, label) == pc' = [pc EXCEPT ![j] = label]

-----------------------------------------------------------------------------
(* script.py FontSettings._color_to_ass.  A colour is the sequence of its  *)
(* characters.                                                             *)

\* font_color of a request that does not name one
DefaultColor == <<"w", "h", "i", "t", "e">>

\* str.lower on the letters of the colours below
Lower(c) == CASE c = "R" -> "r" [] c = "E" -> "e" [] c = "D" -> "d" [] OTHER -> c

\* color_map.get(name, '&Hffffff')
ColorMap(name) ==
    CASE name = <<"w", "h", "i", "t", "e">> -> <<"&", "H", "f", "f", "f", "f", "f", "f">>
      [] name = <<"b", "l", "a", "c", "k">> -> <<"&", "H", "0", "0", "0", "0", "0", "0">>
      [] name = <<"r", "e", "d">> -> <<"&", "H", "0", "0", "0", "0", "f", "f">>
      [] name = <<"g", "r", "e", "e", "n">> -> <<"&", "H", "0", "0", "f", "f", "0", "0">>
      [] name = <<"b", "l", "u", "e">> -> <<"&", "H", "f", "f", "0", "0", "0", "0">>
      [] name = <<"y", "e", "l", "l", "o", "w">> -> <<"&", "H", "0", "0", "f", "f", "f", "f">>
      [] name = <<"#", "f", "f", "f", "f", "f", "f">> -> <<"&", "H", "f", "f", "f", "f", "f", "f">>
      [] name = <<"#", "0", "0", "0", "0", "0", "0">> -> <<"&", "H", "0", "0", "0", "0", "0", "0">>
      [] OTHER -> <<"&", "H", "f", "f", "f", "f", "f", "f">>

\* a conversion that keeps the order of the three bytes
ColorToAssUnreversed(color) ==
    IF color # <<>> /\ Head(color) = "#" /\ Len(Tail(color)) = 6
    THEN <<"&", "H">> \o Tail(color)
    ELSE ColorMap([i \in 1..Len(color) |-> Lower(color[i])])

ColorToAss(color) ==
    IF color # <<>> /\ Head(color) = "#" /\ Len(Tail(color)) = 6
    THEN LET hex_color == Tail(color)
             r == SubSeq(hex_color, 1, 2)
             g == SubSeq(hex_color, 3, 4)
             b == SubSeq(hex_color, 5, 6)
         IN <<"&", "H">> \o b \o g \o r
    ELSE ColorMap([i \in 1..Len(color) |-> Lower(color[i])])

-----------------------------------------------------------------------------
(* server.py process_video: acceptance of a job *)

\* the language form field: "auto", or an explicit language
Languages == {"auto", "hindi", "english"}

process_video(j) ==
    /\ pc[j] = "idle"
    /\ \E language \in Languages, create_video \in BOOLEAN :
          req' = [req EXCEPT ![j] = [language |-> language,
                                     create_video |-> create_video,
                                     font_color |-> DefaultColor]]
    /\ processing_jobs' =
          [k \in DOMAIN processing_jobs \cup {j} |->
              IF k = j THEN NewJobRecord ELSE processing_jobs[k]]
    /\ Goto(j, "bg_start")
    /\ UNCHANGED <<tracker, vp, tl, ret, fs, temp_srt, bl, burnLog, engineLog, extractLog, stageLog>>

\* process_video_background: tracker.update("Initializing", ..., 0)
bg_start(j) ==
    /\ pc[j] = "bg_start"
    /\ Update(j, "Initializing", "Starting video processing", 0)
    /\ Goto(j, "pvc_enter")
    /\ UNCHANGED <<req, vp, tl, ret, fs, temp_srt, bl, burnLog, engineLog, extractLog>>

-----------------------------------------------------------------------------
(* script.py process_video_with_captions *)

\* return None, None, message
ReturnFailure(j, message) ==
    ret' = [ret EXCEPT ![j] = [srt_path |-> "None",
                               video_with_subs_path |-> "None",
                               message |-> message]]

\* the input check and the construction of LocalWhisperTools and
\* VideoProcessor (whose _check_ffmpeg probes the transcoder once)
pvc_enter(j) ==
    /\ pc[j] = "pvc_enter"
    /\ \/ \* the video file is missing
          /\ ReturnFailure(j, "Video file not found")
          /\ Goto(j, "bg_return")
          /\ UNCHANGED vp
       \/ \* loading the Whisper model raises
          /\ Goto(j, "pvc_except")
          /\ UNCHANGED <<vp, ret>>
       \/ \E ffmpeg \in BOOLEAN, moviepy \in BOOLEAN :
             /\ vp' = [vp EXCEPT ![j] = [ffmpeg_available |-> ffmpeg,
                                         moviepy_available |-> moviepy]]
             /\ Goto(j, "pvc_cb_start")
             /\ UNCHANGED ret
    /\ UNCHANGED <<processing_jobs, tracker, req, tl, fs, temp_srt, bl,
                   burnLog, engineLog, extractLog, stageLog>>

\* a step of the pipeline that only reports progress
Report(j, at, m, next) ==
    /\ pc[j] = at
    /\ Callback(j, m)
    /\ Goto(j, next)
    /\ UNCHANGED <<req, vp, tl, ret, fs, temp_srt, bl, burnLog, engineLog, extractLog>>

pvc_cb_start(j) ==
    Report(j, "pvc_cb_start", Msg("clapper", "Starting video captioning process"),
           "pvc_cb_outdir")

pvc_cb_outdir(j) ==
    Report(j, "pvc_cb_outdir", Msg("folder", "Output directory"), "pvc_cb_step1")

pvc_cb_step1(j) ==
    Report(j, "pvc_cb_step1", Msg("music", "Step 1: Extracting audio from video"),
           "ex_ffmpeg")

\* except Exception of process_video_with_captions
pvc_except(j) ==
    /\ pc[j] = "pvc_except"
    /\ Callback(j, Msg("cross", "Unexpected error"))
    /\ ReturnFailure(j, "Error during processing")
    /\ Goto(j, "bg_return")
    /\ UNCHANGED <<req, vp, tl, fs, temp_srt, bl, burnLog, engineLog, extractLog>>

-----------------------------------------------------------------------------
(* script.py VideoProcessor.extract_audio *)

\* one run of an extraction method, and whether it produced the audio
Attempt(method, ok) == [method |-> method, ok |-> ok]

\* an extraction that knows no fallback method
OnlyFFmpegAvailable(processor, method) ==
    method = "ffmpeg" /\ processor.ffmpeg_available

\* if self.ffmpeg_available: / if self.moviepy_available:
MethodAvailable(processor, method) ==
    IF method = "ffmpeg" THEN processor.ffmpeg_available
    ELSE processor.moviepy_available

\* Method 1 is entered only when FFmpeg was detected
ex_ffmpeg(j) ==
    /\ pc[j] = "ex_ffmpeg"
    /\ IF MethodAvailable(vp[j], "ffmpeg")
       THEN /\ Callback(j, Msg("music", "Extracting audio with FFmpeg"))
            /\ Goto(j, "ex_ffmpeg_run")
       ELSE /\ Goto(j, "ex_moviepy")
            /\ UNCHANGED <<processing_jobs, tracker, stageLog>>
    /\ UNCHANGED <<req, vp, tl, ret, fs, temp_srt, bl, burnLog, engineLog, extractLog>>

\* subprocess.run of the extraction command: exit 0, another exit, or an exception
ex_ffmpeg_run(j) ==
    /\ pc[j] = "ex_ffmpeg_run"
    /\ \/ /\ fs' = [fs EXCEPT ![j].audio = TRUE]
          /\ extractLog' = [extractLog EXCEPT ![j] = Append(@, Attempt("ffmpeg", TRUE))]
          /\ Goto(j, "pvc_cb_step2")
          /\ UNCHANGED <<processing_jobs, tracker, stageLog>>
       \/ /\ Callback(j, Msg("warning", "FFmpeg failed"))
          /\ extractLog' = [extractLog EXCEPT ![j] = Append(@, Attempt("ffmpeg", FALSE))]
          /\ Goto(j, "ex_moviepy")
          /\ UNCHANGED fs
       \/ /\ Callback(j, Msg("warning", "FFmpeg error"))
          /\ extractLog' = [extractLog EXCEPT ![j] = Append(@, Attempt("ffmpeg", FALSE))]
          /\ Goto(j, "ex_moviepy")
          /\ UNCHANGED fs
    /\ UNCHANGED <<req, vp, tl, ret, temp_srt, bl, burnLog, engineLog>>

\* Method 2 is entered only when MoviePy was imported; otherwise return False
ex_moviepy(j) ==
    /\ pc[j] = "ex_moviepy"
    /\ IF MethodAvailable(vp[j], "moviepy")
       THEN /\ Callback(j, Msg("music", "Extracting audio with MoviePy"))
            /\ Goto(j, "ex_moviepy_run")
            /\ UNCHANGED ret
       ELSE /\ ReturnFailure(j, "Failed to extract audio from video")
            /\ Goto(j, "bg_return")
            /\ UNCHANGED <<processing_jobs, tracker, stageLog>>
    /\ UNCHANGED <<req, vp, tl, fs, temp_srt, bl, burnLog, engineLog, extractLog>>

ex_moviepy_run(j) ==
    /\ pc[j] = "ex_moviepy_run"
    /\ \/ /\ fs' = [fs EXCEPT ![j].audio = TRUE]
          /\ extractLog' = [extractLog EXCEPT ![j] = Append(@, Attempt("moviepy", TRUE))]
          /\ Goto(j, "pvc_cb_step2")
          /\ UNCHANGED <<processing_jobs, tracker, stageLog, ret>>
       \/ /\ Callback(j, Msg("warning", "MoviePy failed"))
          /\ extractLog' = [extractLog EXCEPT ![j] = Append(@, Attempt("moviepy", FALSE))]
          /\ ReturnFailure(j, "Failed to extract audio from video")
          /\ Goto(j, "bg_return")
          /\ UNCHANGED fs
    /\ UNCHANGED <<req, vp, tl, temp_srt, bl, burnLog, engineLog>>

pvc_cb_step2(j) ==
    Report(j, "pvc_cb_step2", Msg("microphone", "Step 2: Transcribing audio to text"),
           "tr_enter")

-----------------------------------------------------------------------------
(* What the Transcription Engine may return *)

SeqsUpTo(S, n) == UNION {[1..k -> S] : k \in 0..n}

LogProbs == {-16, -9, -8, -5}

SpokenText == <<" ", "a", "a", " ", "n", "a", ".">>
NoiseText == <<" ", ".">>


Seg(text, logprob) ==
    [start |-> 0, end |-> 1500, text |-> text, avg_logprob |-> logprob]

\* the segments the engine's results are made of: speech of every
\* confidence, and noise
SegmentPool == {Seg(SpokenText, logprob) : logprob \in LogProbs} \cup {Seg(NoiseText, -9)}

\* every result with at most n segments, and the result without segment data
EngineResults(n) ==
    {NoResult} \cup {[has_segments |-> TRUE, segments |-> segs] :
                        segs \in SeqsUpTo(SegmentPool, n)}

\* one result of each kind the pipeline treats differently
PipelineResults ==
    {NoResult,
     [has_segments |-> TRUE, segments |-> <<>>],
     [has_segments |-> TRUE, segments |-> <<Seg(SpokenText, -5)>>],
     [has_segments |-> TRUE, segments |-> <<Seg(SpokenText, -9)>>],
     [has_segments |-> TRUE, segments |-> <<Seg(NoiseText, -9)>>]}

\* samples of the classifier's quick pass; a romanized token is a lexicon match
Samples ==
    {s \in [g : {"hi", "en"}, len : {40}, script : {0, 2, 11, 12, 16},
            words : {0, 1, 4}, token : BOOLEAN] : s.token => s.words >= 1}

EngineCall(kind, language, temperature) ==
    [kind |-> kind, language |-> language, temperature |-> temperature]

-----------------------------------------------------------------------------
(* script.py LocalWhisperTools.transcribe_audio_local *)

\* except Exception: return the error message
TranscribeError(j, message) ==
    tl' = [tl EXCEPT ![j] = [NewLocals EXCEPT !.error = message]]

tr_enter(j) ==
    /\ pc[j] = "tr_enter"
    /\ engineLog' = [engineLog EXCEPT ![j] = <<>>]
    /\ IF ~fs[j].audio
       THEN /\ TranscribeError(j, "Error transcribing audio: Audio file not found")
            /\ Goto(j, "tr_return")
            /\ UNCHANGED <<processing_jobs, tracker, stageLog>>
       ELSE /\ Callback(j, Msg("microphone", "Starting transcription with model"))
            /\ tl' = [tl EXCEPT ![j] = NewLocals]
            /\ Goto(j, "tr_language")
    /\ UNCHANGED <<req, vp, ret, fs, temp_srt, bl, burnLog, extractLog>>

\* language resolution; process_video_background passes language = None and
\* auto_detect_language = True for "auto", the language and False otherwise
tr_language(j) ==
    /\ pc[j] = "tr_language"
    /\ IF req[j].language = "auto"
       THEN /\ Goto(j, "det_cb")
            /\ UNCHANGED tl
       ELSE /\ tl' = [tl EXCEPT ![j].language = MapLanguage(req[j].language)]
            /\ Goto(j, "tr_primary_cb")
    /\ UNCHANGED <<processing_jobs, tracker, req, vp, ret, fs, temp_srt, bl,
                   burnLog, engineLog, extractLog, stageLog>>

\* detect_language_type: progress_callback("Detecting language type...")
det_cb(j) ==
    Report(j, "det_cb", Msg("magnifier", "Detecting language type"), "det_call")

\* detect_language_type: the quick pass; an engine error makes it return
\* 'hinglish'
det_call(j) ==
    /\ pc[j] = "det_call"
    /\ engineLog' = [engineLog EXCEPT ![j] = Append(@, EngineCall("sample", "None", 0))]
    /\ \/ /\ tl' = [tl EXCEPT ![j].language = LanguageCode("hinglish")]
          /\ Goto(j, "tr_primary_cb")
       \/ \E sample \in Samples :
             /\ tl' = [tl EXCEPT ![j].sample = sample]
             /\ Goto(j, "det_decide")
    /\ UNCHANGED <<processing_jobs, tracker, req, vp, ret, fs, temp_srt, bl,
                   burnLog, extractLog, stageLog>>

\* f"Detected language: {self.LANGUAGE_CONFIGS[language_type]['name']}"
DetectedMessage(type) ==
    CASE type = "hindi" -> "Detected language: Hindi"
      [] type = "hinglish" -> "Detected language: Hinglish"
      [] OTHER -> "Detected language: English"

\* detect_language_type: the decision on the sample, its report, and the
\* code of the detected type on return
det_decide(j) ==
    /\ pc[j] = "det_decide"
    /\ LET type == DetectLanguageType(tl[j].sample)
       IN /\ tl' = [tl EXCEPT ![j].language = LanguageCode(type),
                              ![j].sample = NoSample]
          /\ Callback(j, Msg("globe", DetectedMessage(type)))
    /\ Goto(j, "tr_primary_cb")
    /\ UNCHANGED <<req, vp, ret, fs, temp_srt, bl, burnLog, engineLog, extractLog>>

tr_primary_cb(j) ==
    Report(j, "tr_primary_cb", Msg("microphone", "Running primary transcription pass"),
           "tr_primary")

\* if language: transcribe_options["language"] = language; "None" when the
\* option is not set
LanguageOption(language) == IF language \in {"None", ""} THEN "None" ELSE language

\* result = self.model.transcribe(audio_path, **transcribe_options)
tr_primary(j, results) ==
    /\ pc[j] = "tr_primary"
    /\ engineLog' = [engineLog EXCEPT ![j] =
                        Append(@, EngineCall("full", LanguageOption(tl[j].language), 0))]
    /\ \/ /\ TranscribeError(j, "Error transcribing audio: engine failure")
          /\ Goto(j, "tr_return")
       \/ \E result \in results :
             /\ tl' = [tl EXCEPT ![j].result = result]
             /\ Goto(j, "tr_confidence")
    /\ UNCHANGED <<processing_jobs, tracker, req, vp, ret, fs, temp_srt, bl,
                   burnLog, stageLog, extractLog>>

\* the low-confidence test after the primary pass
tr_confidence(j) ==
    /\ pc[j] = "tr_confidence"
    /\ IF ShouldRetry(tl[j].result, tl[j].language)
       THEN /\ Callback(j, Msg("cycle", "Low confidence detected, trying alternative approach"))
            /\ Goto(j, "tr_retry")
       ELSE /\ Goto(j, "tr_done_cb")
            /\ UNCHANGED <<processing_jobs, tracker, stageLog>>
    /\ UNCHANGED <<req, vp, tl, ret, fs, temp_srt, bl, burnLog, engineLog, extractLog>>

\* result_alt = self.model.transcribe(audio_path, **transcribe_options_alt),
\* and the choice between the two results
tr_retry(j, results) ==
    /\ pc[j] = "tr_retry"
    /\ engineLog' = [engineLog EXCEPT ![j] = Append(@, EngineCall("full", "None", 2))]
    /\ \/ /\ TranscribeError(j, "Error transcribing audio: engine failure")
          /\ Goto(j, "tr_return")
       \/ \E alt \in results :
             /\ tl' = [tl EXCEPT ![j].result_alt = alt,
                                 ![j].retried = TRUE,
                                 ![j].first = tl[j].result,
                                 ![j].result = PickResult(tl[j].result, alt)]
             /\ Goto(j, "tr_done_cb")
    /\ UNCHANGED <<processing_jobs, tracker, req, vp, ret, fs, temp_srt, bl,
                   burnLog, stageLog, extractLog>>

tr_done_cb(j) ==
    Report(j, "tr_done_cb",
           Msg("microphone", "Transcription completed. Processing segments"), "tr_post")

\* a transcription that accepts every result
ResultErrorNever(result, srt_content) == "None"

\* the two ValueErrors of transcribe_audio_local, as the message its
\* handler returns; "None" when neither is raised
ResultError(result, srt_content) ==
    IF ~result.has_segments
    THEN "Error transcribing audio: Invalid transcription result - no segments found"
    ELSE IF srt_content = <<>>
    THEN "Error transcribing audio: Generated SRT content is empty"
    ELSE "None"

\* validation of the result, post-processing and serialization: the locals
\* transcribe_audio_local returns with
Processed(locals) ==
    LET result == locals.result
        srt_content == ConvertToSrt(PostProcessHindiHinglish(result, locals.language))
    IN IF ResultError(result, srt_content) # "None"
       THEN [NewLocals EXCEPT !.error = ResultError(result, srt_content)]
       ELSE [NewLocals EXCEPT !.srt_content = srt_content]

tr_post(j) ==
    /\ pc[j] = "tr_post"
    /\ tl' = [tl EXCEPT ![j] = Processed(tl[j])]
    /\ Goto(j, "tr_return")
    /\ UNCHANGED <<processing_jobs, tracker, req, vp, ret, fs, temp_srt, bl,
                   burnLog, engineLog, extractLog, stageLog>>

\* process_video_with_captions after the call: an error message ends the
\* run, a document is written to captions.srt
tr_return(j) ==
    /\ pc[j] = "tr_return"
    /\ IF tl[j].error # "None"
       THEN /\ ReturnFailure(j, tl[j].error)
            /\ Goto(j, "bg_return")
            /\ UNCHANGED fs
       ELSE /\ fs' = [fs EXCEPT ![j].srt_exists = TRUE, ![j].srt = tl[j].srt_content]
            /\ Goto(j, "pvc_cb_saved")
            /\ UNCHANGED ret
    /\ UNCHANGED <<processing_jobs, tracker, req, vp, tl, temp_srt, bl,
                   burnLog, engineLog, extractLog, stageLog>>

\* a pipeline that enters Step 3 whatever was requested
AfterSavedAlways(create_video) == "pvc_cb_step3"

\* if create_video: Step 3 is entered, otherwise skipped
AfterSaved(create_video) == IF create_video THEN "pvc_cb_step3" ELSE "pvc_cb_done"

pvc_cb_saved(j) ==
    Report(j, "pvc_cb_saved", Msg("memo", "Step 2 Complete: SRT file saved"),
           AfterSaved(req[j].create_video))

pvc_cb_step3(j) ==
    Report(j, "pvc_cb_step3", Msg("clapper", "Step 3: Creating video with embedded subtitles"),
           "cv_enter")

-----------------------------------------------------------------------------
(* script.py VideoProcessor.validate_srt_file *)

\* the lines of "\n".join(srt_lines): the number, the timing, the text and
\* an empty line for every entry
RECURSIVE JoinedLines(_)
JoinedLines(entries) ==
    IF entries = <<>> THEN <<>>
    ELSE LET e == Head(entries)
         IN <<[kind |-> "number", number |-> e.number],
              [kind |-> "timing", start |-> e.start, end |-> e.end],
              [kind |-> "text", text |-> e.text],
              [kind |-> "text", text |-> <<>>]>>
            \o JoinedLines(Tail(entries))

\* the lines of f.read().strip(): the lines at either end that hold nothing
\* but whitespace are gone
SrtLines(entries) ==
    LET lines == JoinedLines(entries)
        blank == {lines[i] : i \in {k \in 1..Len(lines) :
                                      /\ lines[k].kind = "text"
                                      /\ Strip(lines[k].text) = <<>>}}
    IN StripChars(lines, blank)

\* a validation that accepts every file
ValidateSrtFileAlways(exists, entries) == "SRT file is valid"

\* the reason validate_srt_file gives; "SRT file is valid" when it accepts.
\* The first line is str.isdigit when it is the decimal of a number that is
\* not negative.
ValidateSrtFile(exists, entries) ==
    LET lines == SrtLines(entries)
    IN IF ~exists THEN "SRT file does not exist"
       ELSE IF lines = <<>> THEN "SRT file is empty"
       ELSE IF Len(lines) < 3 THEN "SRT file too short"
       ELSE IF lines[1].kind # "number" \/ lines[1].number < 0
            THEN "SRT file doesn't start with sequence number"
       ELSE IF ~\E i \in 1..Len(lines) : i <= 10 /\ lines[i].kind = "timing"
            THEN "No timestamp found in SRT file"
       ELSE "SRT file is valid"

-----------------------------------------------------------------------------
(* script.py VideoProcessor.create_video_with_subtitles and                *)
(* burn_subtitles_to_video                                                 *)

cv_enter(j) ==
    /\ pc[j] = "cv_enter"
    /\ Callback(j, Msg("camera", "Output will be saved as"))
    /\ bl' = [bl EXCEPT ![j] = NewBurn]
    /\ burnLog' = [burnLog EXCEPT ![j] = <<>>]
    /\ Goto(j, "burn_enter")
    /\ UNCHANGED <<req, vp, tl, ret, fs, temp_srt, engineLog, extractLog>>

\* return True / return False of burn_subtitles_to_video
BurnReturn(j, success) ==
    /\ bl' = [bl EXCEPT ![j].success = success, ![j].returned = TRUE]
    /\ Goto(j, "cv_return")

\* a cascade without the availability guard
TranscoderNeverMissing(processor) == FALSE

\* if not self.ffmpeg_available:
TranscoderMissing(processor) == ~processor.ffmpeg_available

\* the two guards in front of the cascade
burn_enter(j) ==
    /\ pc[j] = "burn_enter"
    /\ IF TranscoderMissing(vp[j])
       THEN /\ Callback(j, Msg("cross", "FFmpeg not available for subtitle burning"))
            /\ BurnReturn(j, FALSE)
       ELSE IF ValidateSrtFile(fs[j].srt_exists, fs[j].srt) # "SRT file is valid"
       THEN /\ Callback(j, Msg("cross", "Invalid SRT file"))
            /\ BurnReturn(j, FALSE)
       ELSE /\ Callback(j, Msg("fire", "Burning subtitles into video"))
            /\ Goto(j, "b1_cb")
            /\ UNCHANGED bl
    /\ UNCHANGED <<req, vp, tl, ret, fs, temp_srt, burnLog, engineLog, extractLog>>

\* what a transcoder run may leave at the output path
OutputsAfter(exit) == IF exit = 0 THEN {"none", "empty", "full"} ELSE {"none", "empty"}

\* one run of the transcoder by the cascade: the strategy, the subtitle
\* file its filter names, and whether it exited with status 0
Invocation(strategy, subtitle, ok) ==
    [strategy |-> strategy, subtitle |-> subtitle, ok |-> ok]

\* a cascade that gives up at the first strategy whose run fails
NextStrategyNone(strategy) == "b_failed"

\* where the cascade continues when the run of a strategy has exited
\* non-zero, timed out or raised: each strategy's try block is closed by
\* its own except clauses, and the next strategy follows them
NextStrategy(strategy) ==
    CASE strategy = 1 -> "b2_cb"
      [] strategy = 2 -> "b3_cb"
      [] strategy = 3 -> "b4_cb"
      [] strategy = 4 -> "b_failed"

\* Method 1: the styled-overlay strategy
b1_cb(j) ==
    Report(j, "b1_cb", Msg("fire", "Creating styled ASS file for better subtitle appearance"),
           "b1_ass")

\* f"{time_match.group(1)}.{time_match.group(2)[:2]}": the time of day and
\* the first two digits of the milliseconds
AssTime(stamp) ==
    [hours |-> stamp.hours, minutes |-> stamp.minutes, secs |-> stamp.secs,
     centisecs |-> stamp.millisecs \div 10]

\* the Dialogue events create_styled_ass_file writes: one for every block
\* of at least three lines whose timing line matches
\* (\d{2}:\d{2}:\d{2}),(\d{3}) --> (\d{2}:\d{2}:\d{2}),(\d{3}), that is whose
\* two timestamps have an hour field of two digits, with the line breaks
\* of the text replaced by \N
RECURSIVE AssEvents(_)
AssEvents(entries) ==
    IF entries = <<>> THEN <<>>
    ELSE LET e == Head(entries)
             text == [i \in 1..Len(e.text) |->
                         IF e.text[i] = "\n" THEN "\\N" ELSE e.text[i]]
         IN (IF Strip(e.text) # <<>> /\ e.start.hours < 100 /\ e.end.hours < 100
             THEN <<[start |-> AssTime(e.start), end |-> AssTime(e.end), text |-> text]>>
             ELSE <<>>)
            \o AssEvents(Tail(entries))

\* create_styled_ass_file returns True with captions.ass written, its Style
\* line carrying the converted PrimaryColour, or False
b1_ass(j) ==
    /\ pc[j] = "b1_ass"
    /\ \/ /\ fs' = [fs EXCEPT ![j].ass = TRUE,
                             ![j].primary = ColorToAss(req[j].font_color),
                             ![j].events = AssEvents(fs[j].srt)]
          /\ Callback(j, Msg("fire", "Burning subtitles with advanced styling"))
          /\ Goto(j, "b1_cb_run")
       \/ /\ Goto(j, "b2_cb")
          /\ UNCHANGED <<fs, processing_jobs, tracker, stageLog>>
    /\ UNCHANGED <<req, vp, tl, ret, temp_srt, bl, burnLog, engineLog, extractLog>>

b1_cb_run(j) ==
    Report(j, "b1_cb_run", Msg("clapper", "Running styled subtitle command"), "b1_run")

\* subprocess.run of the ass= command: exit 0, another exit, a timeout or
\* another exception
b1_run(j) ==
    /\ pc[j] = "b1_run"
    /\ \/ \E out \in OutputsAfter(0) :
             /\ burnLog' = [burnLog EXCEPT ![j] = Append(@, Invocation(1, "ass", TRUE))]
             /\ Callback(j, Msg("check", "Subtitles burned successfully with advanced styling"))
             /\ fs' = [fs EXCEPT ![j].out = out, ![j].ass = FALSE, ![j].primary = <<>>,
                                  ![j].events = <<>>]
             /\ BurnReturn(j, TRUE)
       \/ \E out \in OutputsAfter(1),
             m \in {"ASS styling method failed", "ASS method timed out, trying fallback",
                    "ASS method error"} :
             /\ burnLog' = [burnLog EXCEPT ![j] = Append(@, Invocation(1, "ass", FALSE))]
             /\ Callback(j, Msg("warning", m))
             /\ fs' = [fs EXCEPT ![j].out = out]
             /\ Goto(j, NextStrategy(1))
             /\ UNCHANGED bl
    /\ UNCHANGED <<req, vp, tl, ret, temp_srt, engineLog, extractLog>>

\* Method 2: the direct-overlay strategy
b2_cb(j) ==
    Report(j, "b2_cb", Msg("fire", "Attempting simple subtitle burning"), "b2_cb_run")

b2_cb_run(j) ==
    Report(j, "b2_cb_run", Msg("clapper", "Running command"), "b2_run")

b2_run(j) ==
    /\ pc[j] = "b2_run"
    /\ \/ \E out \in OutputsAfter(0) :
             /\ burnLog' = [burnLog EXCEPT ![j] = Append(@, Invocation(2, "srt", TRUE))]
             /\ Callback(j, Msg("check", "Subtitles burned successfully with simple method"))
             /\ fs' = [fs EXCEPT ![j].out = out]
             /\ BurnReturn(j, TRUE)
       \/ \E out \in OutputsAfter(1),
             m \in {"Simple method failed", "Simple method timed out, trying alternative",
                    "Simple method error"} :
             /\ burnLog' = [burnLog EXCEPT ![j] = Append(@, Invocation(2, "srt", FALSE))]
             /\ Callback(j, Msg("warning", m))
             /\ fs' = [fs EXCEPT ![j].out = out]
             /\ Goto(j, NextStrategy(2))
             /\ UNCHANGED bl
    /\ UNCHANGED <<req, vp, tl, ret, temp_srt, engineLog, extractLog>>

\* Method 3: the co-located-file strategy
b3_cb(j) ==
    Report(j, "b3_cb", Msg("fire", "Trying with copied SRT file"), "b3_copy")

\* shutil.copy2(srt_path, temp_srt): every job's video is in the upload
\* folder, so temp_srt is the same path for all of them
b3_copy(j) ==
    /\ pc[j] = "b3_copy"
    /\ \/ /\ temp_srt' = j
          /\ Goto(j, "b3_run")
          /\ UNCHANGED <<processing_jobs, tracker, stageLog>>
       \/ /\ Callback(j, Msg("warning", "Copied SRT method error"))
          /\ Goto(j, "b4_cb")
          /\ UNCHANGED temp_srt
    /\ UNCHANGED <<req, vp, tl, ret, fs, bl, burnLog, engineLog, extractLog>>

\* subprocess.run with cwd = video_dir; the transcoder opens whatever
\* temp_subtitles.srt holds then, and fails when there is none
b3_run(j) ==
    /\ pc[j] = "b3_run"
    /\ \/ \E exit \in {0, 1} :
             /\ temp_srt = "none" => exit = 1
             /\ burnLog' = [burnLog EXCEPT ![j] = Append(@, Invocation(3, temp_srt, exit = 0))]
             /\ \E out \in OutputsAfter(exit) : fs' = [fs EXCEPT ![j].out = out]
             /\ bl' = [bl EXCEPT ![j].exit = exit]
             /\ Goto(j, "b3_exists")
             /\ UNCHANGED <<processing_jobs, tracker, stageLog>>
       \/ \E out \in OutputsAfter(1) :
             /\ burnLog' = [burnLog EXCEPT ![j] = Append(@, Invocation(3, temp_srt, FALSE))]
             /\ Callback(j, Msg("warning", "Copied SRT method error"))
             /\ fs' = [fs EXCEPT ![j].out = out]
             /\ Goto(j, NextStrategy(3))
             /\ UNCHANGED bl
    /\ UNCHANGED <<req, vp, tl, ret, temp_srt, engineLog, extractLog>>

\* if os.path.exists(temp_srt):
b3_exists(j) ==
    /\ pc[j] = "b3_exists"
    /\ Goto(j, IF temp_srt # "none" THEN "b3_remove" ELSE "b3_result")
    /\ UNCHANGED <<processing_jobs, tracker, req, vp, tl, ret, fs, temp_srt, bl,
                   burnLog, engineLog, extractLog, stageLog>>

\* os.remove(temp_srt); FileNotFoundError lands in except Exception
b3_remove(j) ==
    /\ pc[j] = "b3_remove"
    /\ IF temp_srt # "none"
       THEN /\ temp_srt' = "none"
            /\ Goto(j, "b3_result")
            /\ UNCHANGED <<processing_jobs, tracker, stageLog>>
       ELSE /\ Callback(j, Msg("warning", "Copied SRT method error"))
            /\ Goto(j, "b4_cb")
            /\ UNCHANGED temp_srt
    /\ UNCHANGED <<req, vp, tl, ret, fs, bl, burnLog, engineLog, extractLog>>

\* if result.returncode == 0:
b3_result(j) ==
    /\ pc[j] = "b3_result"
    /\ IF bl[j].exit = 0
       THEN /\ Callback(j, Msg("check", "Subtitles burned successfully with copied SRT method"))
            /\ BurnReturn(j, TRUE)
       ELSE /\ Callback(j, Msg("warning", "Copied SRT method failed"))
            /\ Goto(j, "b4_cb")
            /\ UNCHANGED bl
    /\ UNCHANGED <<req, vp, tl, ret, fs, temp_srt, burnLog, engineLog, extractLog>>

\* Method 4: the raw-path last resort
b4_cb(j) ==
    Report(j, "b4_cb", Msg("fire", "Trying ASS subtitle filter"), "b4_run")

b4_run(j) ==
    /\ pc[j] = "b4_run"
    /\ \/ \E out \in OutputsAfter(0) :
             /\ burnLog' = [burnLog EXCEPT ![j] = Append(@, Invocation(4, "srt", TRUE))]
             /\ Callback(j, Msg("check", "Subtitles burned successfully with ASS filter"))
             /\ fs' = [fs EXCEPT ![j].out = out]
             /\ BurnReturn(j, TRUE)
       \/ \E out \in OutputsAfter(1), m \in {"ASS filter failed", "ASS filter error"} :
             /\ burnLog' = [burnLog EXCEPT ![j] = Append(@, Invocation(4, "srt", FALSE))]
             /\ Callback(j, Msg("warning", m))
             /\ fs' = [fs EXCEPT ![j].out = out]
             /\ Goto(j, NextStrategy(4))
             /\ UNCHANGED bl
    /\ UNCHANGED <<req, vp, tl, ret, temp_srt, engineLog, extractLog>>

\* If all methods failed
b_failed(j) ==
    /\ pc[j] = "b_failed"
    /\ Callback(j, Msg("cross", "All subtitle burning methods failed"))
    /\ BurnReturn(j, FALSE)
    /\ UNCHANGED <<req, vp, tl, ret, fs, temp_srt, burnLog, engineLog, extractLog>>

\* a report that trusts the cascade's return value alone
VideoCreatedOnSuccess(success, out) == success

\* create_video_with_subtitles: if success and output_path.exists()
VideoCreated(success, out) == success /\ out # "none"

cv_return(j) ==
    /\ pc[j] = "cv_return"
    /\ IF VideoCreated(bl[j].success, fs[j].out)
       THEN /\ Callback(j, Msg("check", "Video created successfully"))
            /\ ret' = [ret EXCEPT ![j].video_with_subs_path = "video"]
            /\ Goto(j, "pvc_cb_done")
       ELSE /\ Goto(j, "pvc_cb_vfail")
            /\ UNCHANGED <<ret, processing_jobs, tracker, stageLog>>
    /\ UNCHANGED <<req, vp, tl, fs, temp_srt, bl, burnLog, engineLog, extractLog>>

pvc_cb_vfail(j) ==
    Report(j, "pvc_cb_vfail", Msg("warning", "Video creation failed"), "pvc_cb_butsrt")

pvc_cb_butsrt(j) ==
    Report(j, "pvc_cb_butsrt", Msg("memo", "But SRT file was created successfully"),
           "pvc_cb_done")

\* return str(srt_path), video_with_subs_path, "Success"
pvc_cb_done(j) ==
    /\ pc[j] = "pvc_cb_done"
    /\ Callback(j, Msg("party", "Video captioning process completed"))
    /\ ret' = [ret EXCEPT ![j].srt_path = "captions.srt", ![j].message = "Success"]
    /\ Goto(j, "bg_return")
    /\ UNCHANGED <<req, vp, tl, fs, temp_srt, bl, burnLog, engineLog, extractLog>>

-----------------------------------------------------------------------------
(* server.py process_video_background after the pipeline returned *)

\* a handler that records no error text
ErrorTextAbsent(message) == "None"

\* str(e) of raise Exception(message or "Processing failed")
ErrorText(message) == IF message \in {"None", ""} THEN "Processing failed" ELSE message

\* a worker that marks the record completed before it publishes the results
bg_return_unpublished(j) ==
    /\ pc[j] = "bg_return"
    /\ IF ret[j].srt_path # "None"
       THEN /\ tracker' = [tracker EXCEPT ![j].completed = TRUE, ![j].progress = 100]
            /\ processing_jobs' = [processing_jobs EXCEPT ![j].completed = TRUE]
            /\ Goto(j, "bg_completed")
       ELSE /\ tracker' = [tracker EXCEPT ![j].error = ErrorText(ret[j].message)]
            /\ processing_jobs' =
                 [processing_jobs EXCEPT ![j] =
                     [@ EXCEPT !.error = ErrorText(ret[j].message), !.completed = TRUE]]
            /\ Goto(j, "bg_error")
    /\ UNCHANGED <<req, vp, tl, ret, fs, temp_srt, bl, burnLog, engineLog, extractLog, stageLog>>

\* if srt_path: the success record is published with one dict.update;
\* else: raise Exception(message), whose handler publishes the error
bg_return(j) ==
    /\ pc[j] = "bg_return"
    /\ IF ret[j].srt_path # "None"
       THEN /\ tracker' = [tracker EXCEPT ![j].completed = TRUE, ![j].progress = 100]
            /\ processing_jobs' =
                 [processing_jobs EXCEPT ![j] =
                     [@ EXCEPT !.completed = TRUE,
                               !.srt_content = fs[j].srt,
                               !.srt_path = ret[j].srt_path,
                               !.video_with_subs_path = ret[j].video_with_subs_path,
                               !.message = ret[j].message]]
            /\ Goto(j, "bg_completed")
       ELSE /\ tracker' = [tracker EXCEPT ![j].error = ErrorText(ret[j].message)]
            /\ processing_jobs' =
                 [processing_jobs EXCEPT ![j] =
                     [@ EXCEPT !.error = ErrorText(ret[j].message), !.completed = TRUE]]
            /\ Goto(j, "bg_error")
    /\ UNCHANGED <<req, vp, tl, ret, fs, temp_srt, bl, burnLog, engineLog, extractLog, stageLog>>

\* tracker.update("Completed", "Video processing completed successfully!", 100)
bg_completed(j) ==
    /\ pc[j] = "bg_completed"
    /\ Update(j, "Completed", "Video processing completed successfully!", 100)
    /\ Goto(j, "done")
    /\ UNCHANGED <<req, vp, tl, ret, fs, temp_srt, bl, burnLog, engineLog, extractLog>>

\* tracker.update("Error", f"Processing failed: {str(e)}", None)
bg_error(j) ==
    /\ pc[j] = "bg_error"
    /\ Update(j, "Error", "Processing failed", tracker[j].progress)
    /\ Goto(j, "done")
    /\ UNCHANGED <<req, vp, tl, ret, fs, temp_srt, bl, burnLog, engineLog, extractLog>>

-----------------------------------------------------------------------------
(* server.py get_job_status *)

\* an endpoint that knows no job
JobStatusNeverFound(j) == [type |-> "not found"]

\* the response to a status poll for job id j
get_job_status(j) ==
    IF j \notin DOMAIN processing_jobs THEN [type |-> "not found"]
    ELSE LET job_data == processing_jobs[j]
         IN IF job_data.completed /\ job_data.error = "None"
            THEN [type |-> "complete",
                  srtContent |-> job_data.srt_content,
                  srtPath |-> job_data.srt_path,
                  message |-> job_data.message,
                  videoCreated |-> job_data.video_with_subs_path # "None",
                  videoWithSubtitles |-> job_data.video_with_subs_path]
            ELSE [type |-> IF job_data.error = "None" THEN "progress" ELSE "error",
                  progress |-> job_data.progress,
                  current_step |-> job_data.current_step,
                  message |-> job_data.message,
                  completed |-> job_data.completed,
                  error |-> job_data.error]

\* GET /api/job-status/<job_id>, the worker taking no step while the
\* handler runs
Poll(j) ==
    /\ response' = [job |-> j, body |-> get_job_status(j)]
    /\ UNCHANGED workerVars

\* The handler read by read, the worker free to write in between.  First
\* the membership test and the condition
\* job_data['completed'] and not job_data.get('error')
poll_check(j) ==
    /\ response' =
          [job |-> j,
           body |-> IF j \notin DOMAIN processing_jobs THEN [type |-> "not found"]
                    ELSE [type |-> "checked",
                          complete |-> /\ processing_jobs[j].completed
                                       /\ processing_jobs[j].error = "None"]]
    /\ UNCHANGED workerVars

\* then the reads that fill response_data: all of them for a progress or
\* error response, those up to videoCreated for a complete one
poll_read(j) ==
    /\ response.job = j
    /\ response.body.type = "checked"
    /\ LET job_data == processing_jobs[j]
       IN response' =
             [job |-> j,
              body |-> IF response.body.complete
                       THEN [type |-> "reading",
                             srtContent |-> job_data.srt_content,
                             srtPath |-> job_data.srt_path,
                             message |-> job_data.message,
                             videoCreated |-> job_data.video_with_subs_path # "None"]
                       ELSE [type |-> IF job_data.error = "None" THEN "progress" ELSE "error",
                             progress |-> job_data.progress,
                             current_step |-> job_data.current_step,
                             message |-> job_data.message,
                             completed |-> job_data.completed,
                             error |-> job_data.error]]
    /\ UNCHANGED workerVars

\* and the last read of a complete response, videoWithSubtitles
poll_respond(j) ==
    /\ response.job = j
    /\ response.body.type = "reading"
    /\ response' =
          [job |-> j,
           body |-> [type |-> "complete",
                     srtContent |-> response.body.srtContent,
                     srtPath |-> response.body.srtPath,
                     message |-> response.body.message,
                     videoCreated |-> response.body.videoCreated,
                     videoWithSubtitles |-> processing_jobs[j].video_with_subs_path]]
    /\ UNCHANGED workerVars

-----------------------------------------------------------------------------
(* The specifications *)

Init ==
    /\ processing_jobs = <<>>
    /\ tracker = [j \in Jobs |-> NewTracker]
    /\ pc = [j \in Jobs |-> "idle"]
    /\ req = [j \in Jobs |-> [language |-> "auto", create_video |-> FALSE, font_color |-> DefaultColor]]
    /\ vp = [j \in Jobs |-> NoTranscoder]
    /\ tl = [j \in Jobs |-> NewLocals]
    /\ ret = [j \in Jobs |-> NewReturn]
    /\ fs = [j \in Jobs |-> NewFiles]
    /\ temp_srt = "none"
    /\ bl = [j \in Jobs |-> NewBurn]
    /\ burnLog = [j \in Jobs |-> <<>>]
    /\ engineLog = [j \in Jobs |-> <<>>]
    /\ extractLog = [j \in Jobs |-> <<>>]
    /\ stageLog = [j \in Jobs |-> 0]
    /\ response = [job |-> "none", body |-> [type |-> "none"]]

\* the steps of process_video_with_captions up to the transcription
Acceptance(j) ==
    \/ process_video(j) \/ bg_start(j) \/ pvc_enter(j) \/ pvc_cb_start(j)
    \/ pvc_cb_outdir(j) \/ pvc_cb_step1(j) \/ pvc_except(j)

Extraction(j) ==
    \/ ex_ffmpeg(j) \/ ex_ffmpeg_run(j) \/ ex_moviepy(j) \/ ex_moviepy_run(j)
    \/ pvc_cb_step2(j)

Transcription(j, results) ==
    \/ tr_enter(j) \/ tr_language(j) \/ det_cb(j) \/ det_call(j) \/ det_decide(j)
    \/ tr_primary_cb(j) \/ tr_primary(j, results) \/ tr_confidence(j)
    \/ tr_retry(j, results) \/ tr_done_cb(j) \/ tr_post(j)

Persisting(j) ==
    \/ tr_return(j) \/ pvc_cb_saved(j) \/ pvc_cb_step3(j)

BurnIn(j) ==
    \/ cv_enter(j) \/ burn_enter(j) \/ b1_cb(j) \/ b1_ass(j) \/ b1_cb_run(j)
    \/ b1_run(j) \/ b2_cb(j) \/ b2_cb_run(j) \/ b2_run(j) \/ b3_cb(j)
    \/ b3_copy(j) \/ b3_run(j) \/ b3_exists(j) \/ b3_remove(j) \/ b3_result(j)
    \/ b4_cb(j) \/ b4_run(j) \/ b_failed(j) \/ cv_return(j)

Completion(j) ==
    \/ pvc_cb_vfail(j) \/ pvc_cb_butsrt(j) \/ pvc_cb_done(j)
    \/ bg_return(j) \/ bg_completed(j)

Failure(j) == bg_error(j)

\* a step of job j's worker thread
Worker(j, results) ==
    /\ \/ Acceptance(j) \/ Extraction(j) \/ Transcription(j, results)
       \/ Persisting(j) \/ BurnIn(j) \/ Completion(j) \/ Failure(j)
    /\ UNCHANGED response

\* one job through the whole pipeline, polled at any time, as is an id that
\* was never handed out
Next ==
    \/ Worker("j1", PipelineResults)
    \/ \E j \in Jobs : Poll(j)

Spec == Init /\ [][Next]_vars

\* the positions of a job's thread, from the upload to the thread's end
Positions ==
    {"idle", "bg_start", "pvc_enter", "pvc_cb_start", "pvc_cb_outdir",
     "pvc_cb_step1", "ex_ffmpeg", "ex_ffmpeg_run", "ex_moviepy", "ex_moviepy_run",
     "pvc_cb_step2", "tr_enter", "tr_language", "det_cb", "det_call", "det_decide",
     "tr_primary_cb", "tr_primary", "tr_confidence", "tr_retry", "tr_done_cb",
     "tr_post", "tr_return", "pvc_cb_saved", "pvc_cb_step3", "cv_enter",
     "burn_enter", "b1_ass", "b1_cb", "b1_cb_run", "b1_run", "b2_cb",
     "b2_cb_run", "b2_run", "b3_cb", "b3_copy", "b3_run", "b3_exists",
     "b3_result", "b3_remove", "b4_cb", "b4_run", "b_failed", "cv_return",
     "pvc_cb_vfail", "pvc_cb_butsrt", "pvc_cb_done", "pvc_except",
     "bg_return", "bg_completed", "bg_error", "done"}

\* a started thread leaves the position it is at: one step of it, seen on pc
\* (every step of Worker changes pc, and Worker has a step at every position
\* but the last)
Advances(j) ==
    /\ pc[j] \notin {"idle", "done"}
    /\ \E p \in Positions \ {pc[j]} : Goto(j, p)

\* the job's worker alone; it is a started thread, scheduled as long as it
\* has a step to take, and every external call it makes returns or times out
NextLive == Worker("j1", PipelineResults)

SpecLive == Init /\ [][NextLive]_vars /\ WF_pc(Advances("j1"))


-----------------------------------------------------------------------------
(* Concurrent burn-in: every job of Jobs has been accepted with            *)
(* language = english and create_video = true, found FFmpeg, and has just  *)
(* reported "Step 3"; its worker is about to call                          *)
(* create_video_with_subtitles.  BurnEntryReachable states that Spec       *)
(* brings job j1 to exactly this state.                                    *)

SpokenDocument ==
    ConvertToSrt(PostProcessHindiHinglish(
        [has_segments |-> TRUE, segments |-> <<Seg(SpokenText, -5)>>], "en"))

BurnEntryTracker ==
    [NewTracker EXCEPT !.progress = 75, !.current_step = "Processing",
                       !.message = "Step 3: Creating video with embedded subtitles"]

BurnEntry ==
    [processing_jobs |-> RecordAfter(NewJobRecord, BurnEntryTracker),
     tracker |-> BurnEntryTracker,
     pc |-> "cv_enter",
     req |-> [language |-> "english", create_video |-> TRUE, font_color |-> DefaultColor],
     vp |-> [ffmpeg_available |-> TRUE, moviepy_available |-> FALSE],
     tl |-> [NewLocals EXCEPT !.srt_content = SpokenDocument],
     ret |-> NewReturn,
     fs |-> [NewFiles EXCEPT !.audio = TRUE, !.srt_exists = TRUE, !.srt = SpokenDocument],
     bl |-> NewBurn,
     burnLog |-> <<>>,
     engineLog |-> <<EngineCall("full", "en", 0)>>,
     extractLog |-> <<Attempt("ffmpeg", TRUE)>>,
     stageLog |-> 4]

BurnEntryReachable ==
    /\ "j1" \in DOMAIN processing_jobs
    /\ processing_jobs["j1"] = BurnEntry.processing_jobs
    /\ tracker["j1"] = BurnEntry.tracker
    /\ pc["j1"] = BurnEntry.pc
    /\ req["j1"] = BurnEntry.req
    /\ vp["j1"] = BurnEntry.vp
    /\ tl["j1"] = BurnEntry.tl
    /\ ret["j1"] = BurnEntry.ret
    /\ fs["j1"] = BurnEntry.fs
    /\ bl["j1"] = BurnEntry.bl
    /\ burnLog["j1"] = BurnEntry.burnLog
    /\ engineLog["j1"] = BurnEntry.engineLog
    /\ extractLog["j1"] = BurnEntry.extractLog
    /\ stageLog["j1"] = BurnEntry.stageLog
    /\ temp_srt = "none"

InitBurn ==
    /\ processing_jobs = [j \in Jobs |-> BurnEntry.processing_jobs]
    /\ tracker = [j \in Jobs |-> BurnEntry.tracker]
    /\ pc = [j \in Jobs |-> BurnEntry.pc]
    /\ req = [j \in Jobs |-> BurnEntry.req]
    /\ vp = [j \in Jobs |-> BurnEntry.vp]
    /\ tl = [j \in Jobs |-> BurnEntry.tl]
    /\ ret = [j \in Jobs |-> BurnEntry.ret]
    /\ fs = [j \in Jobs |-> BurnEntry.fs]
    /\ temp_srt = "none"
    /\ bl = [j \in Jobs |-> BurnEntry.bl]
    /\ burnLog = [j \in Jobs |-> BurnEntry.burnLog]
    /\ engineLog = [j \in Jobs |-> BurnEntry.engineLog]
    /\ extractLog = [j \in Jobs |-> BurnEntry.extractLog]
    /\ stageLog = [j \in Jobs |-> BurnEntry.stageLog]
    /\ response = [job |-> "none", body |-> [type |-> "none"]]

NextBurn == \E j \in Jobs : (BurnIn(j) \/ Completion(j)) /\ UNCHANGED response

SpecBurn == InitBurn /\ [][NextBurn]_vars

-----------------------------------------------------------------------------
(* The burn-in of job j1, called with every font colour and with every     *)
(* subtitle file below.  The colours: hex colours, the six names of the    *)
(* palette, a name in capitals, a name outside the palette, '#' before     *)
(* three and before seven digits, '#' alone, and the empty field.          *)

Colors ==
    {<<"#", "1", "a", "2", "b", "3", "c">>, <<"#", "f", "f", "0", "0", "0", "0">>,
     <<"#", "0", "0", "0", "0", "f", "f">>, <<"#", "A", "A", "B", "B", "C", "C">>,
     <<"w", "h", "i", "t", "e">>, <<"b", "l", "a", "c", "k">>, <<"r", "e", "d">>,
     <<"g", "r", "e", "e", "n">>, <<"b", "l", "u", "e">>,
     <<"y", "e", "l", "l", "o", "w">>, <<"R", "E", "D">>, <<"p", "i", "n", "k">>,
     <<"#", "f", "0", "0">>, <<"#", "1", "a", "2", "b", "3", "c", "4">>,
     <<"#">>, <<>>}

\* speech below one second, across the hour, and beyond one hundred hours
StyleSegments ==
    {[Seg(SpokenText, -5) EXCEPT !.start = span[1], !.end = span[2]] :
        span \in {<<0, 999>>, <<3599999, 3600000>>, <<360000001, 360000999>>}}

\* The files at srt_path: the documents the serializer makes of at most
\* MaxSegs of these segments (the empty one is an empty file), the document
\* of BurnEntry, no file, a file of two lines, a file whose first line is
\* '-1', and a file with an entry of two lines of text
StyleFiles ==
    LET entry == SpokenDocument[1]
    IN {[srt_exists |-> TRUE,
         srt |-> ConvertToSrt([has_segments |-> TRUE, segments |-> segs])] :
            segs \in SeqsUpTo(StyleSegments, MaxSegs)}
       \cup {[srt_exists |-> TRUE, srt |-> SpokenDocument],
             [srt_exists |-> FALSE, srt |-> <<>>],
             [srt_exists |-> TRUE, srt |-> <<[entry EXCEPT !.text = <<>>]>>],
             [srt_exists |-> TRUE, srt |-> <<[entry EXCEPT !.number = -1]>>],
             [srt_exists |-> TRUE, srt |-> <<[entry EXCEPT !.text = <<"a", "\n", "n">>]>>]}

InitStyle ==
    /\ processing_jobs = [j \in {"j1"} |-> BurnEntry.processing_jobs]
    /\ tracker = [j \in Jobs |-> IF j = "j1" THEN BurnEntry.tracker ELSE NewTracker]
    /\ pc = [j \in Jobs |-> IF j = "j1" THEN BurnEntry.pc ELSE "idle"]
    /\ \E color \in Colors, file \in StyleFiles :
          /\ color = DefaultColor \/ file.srt = SpokenDocument
          /\ req = [j \in Jobs |-> IF j = "j1"
                                   THEN [BurnEntry.req EXCEPT !.font_color = color]
                                   ELSE [language |-> "auto", create_video |-> FALSE, font_color |-> DefaultColor]]
          /\ fs = [j \in Jobs |-> IF j = "j1"
                                  THEN [BurnEntry.fs EXCEPT !.srt_exists = file.srt_exists,
                                                            !.srt = file.srt]
                                  ELSE NewFiles]
    /\ vp = [j \in Jobs |-> IF j = "j1" THEN BurnEntry.vp ELSE NoTranscoder]
    /\ tl = [j \in Jobs |-> IF j = "j1" THEN BurnEntry.tl ELSE NewLocals]
    /\ ret = [j \in Jobs |-> NewReturn]
    /\ temp_srt = "none"
    /\ bl = [j \in Jobs |-> NewBurn]
    /\ burnLog = [j \in Jobs |-> <<>>]
    /\ engineLog = [j \in Jobs |-> IF j = "j1" THEN BurnEntry.engineLog ELSE <<>>]
    /\ extractLog = [j \in Jobs |-> IF j = "j1" THEN BurnEntry.extractLog ELSE <<>>]
    /\ stageLog = [j \in Jobs |-> IF j = "j1" THEN BurnEntry.stageLog ELSE 0]
    /\ response = [job |-> "none", body |-> [type |-> "none"]]

NextStyle == (BurnIn("j1") \/ Completion("j1")) /\ UNCHANGED response

SpecStyle == InitStyle /\ [][NextStyle]_vars

-----------------------------------------------------------------------------
(* The transcription stage on every engine result of at most MaxSegs       *)
(* segments: job j1 has extracted the audio with FFmpeg and has just       *)
(* reported "Step 2"; its worker is about to call transcribe_audio_local.  *)
(* TranscribeEntryReachable states that Spec brings job j1 to this state.  *)

TranscribeEntryTracker ==
    [NewTracker EXCEPT !.progress = 25, !.current_step = "Processing",
                       !.message = "Step 2: Transcribing audio to text"]

TranscribeEntryReachable ==
    /\ "j1" \in DOMAIN processing_jobs
    /\ processing_jobs["j1"] = RecordAfter(NewJobRecord, TranscribeEntryTracker)
    /\ tracker["j1"] = TranscribeEntryTracker
    /\ pc["j1"] = "tr_enter"
    /\ req["j1"].create_video = FALSE
    /\ vp["j1"] = [ffmpeg_available |-> TRUE, moviepy_available |-> FALSE]
    /\ tl["j1"] = NewLocals
    /\ ret["j1"] = NewReturn
    /\ fs["j1"] = [NewFiles EXCEPT !.audio = TRUE]
    /\ bl["j1"] = NewBurn
    /\ burnLog["j1"] = <<>>
    /\ engineLog["j1"] = <<>>
    /\ extractLog["j1"] = <<Attempt("ffmpeg", TRUE)>>
    /\ stageLog["j1"] = 2
    /\ temp_srt = "none"

\* the language form fields of SpecTranscribe: those of Languages, a second
\* name of the synonym table, a name outside it, and the empty field
TranscribeLanguages == Languages \cup {"hinglish", "french", ""}

InitTranscribe ==
    /\ processing_jobs = [j \in {"j1"} |-> RecordAfter(NewJobRecord, TranscribeEntryTracker)]
    /\ tracker = [j \in Jobs |-> IF j = "j1" THEN TranscribeEntryTracker ELSE NewTracker]
    /\ pc = [j \in Jobs |-> IF j = "j1" THEN "tr_enter" ELSE "idle"]
    /\ \E language \in TranscribeLanguages :
          req = [j \in Jobs |-> IF j = "j1"
                                THEN [language |-> language, create_video |-> FALSE, font_color |-> DefaultColor]
                                ELSE [language |-> "auto", create_video |-> FALSE, font_color |-> DefaultColor]]
    /\ vp = [j \in Jobs |-> IF j = "j1"
                            THEN [ffmpeg_available |-> TRUE, moviepy_available |-> FALSE]
                            ELSE NoTranscoder]
    /\ tl = [j \in Jobs |-> NewLocals]
    /\ ret = [j \in Jobs |-> NewReturn]
    /\ fs = [j \in Jobs |-> IF j = "j1" THEN [NewFiles EXCEPT !.audio = TRUE] ELSE NewFiles]
    /\ temp_srt = "none"
    /\ bl = [j \in Jobs |-> NewBurn]
    /\ burnLog = [j \in Jobs |-> <<>>]
    /\ engineLog = [j \in Jobs |-> <<>>]
    /\ extractLog = [j \in Jobs |-> IF j = "j1" THEN <<Attempt("ffmpeg", TRUE)>> ELSE <<>>]
    /\ stageLog = [j \in Jobs |-> IF j = "j1" THEN 2 ELSE 0]
    /\ response = [job |-> "none", body |-> [type |-> "none"]]

NextTranscribe == Transcription("j1", EngineResults(MaxSegs)) /\ UNCHANGED response

SpecTranscribe == InitTranscribe /\ [][NextTranscribe]_vars

-----------------------------------------------------------------------------
(* Two jobs and their pollers after transcription: each job is at the      *)
(* return of transcribe_audio_local with no video requested, one with a    *)
(* document, the other with the message of a failed engine call (or both   *)
(* alike).  RecordsDocumentReachable and RecordsFailureReachable state     *)
(* that Spec brings job j1 to either state.                                *)

RecordsEntry(failed) ==
    LET t == IF failed
             THEN [NewTracker EXCEPT !.progress = 45, !.current_step = "Processing",
                       !.message = "Running primary transcription pass"]
             ELSE [NewTracker EXCEPT !.progress = 75,
                       !.current_step = "Transcription Complete",
                       !.message = "Transcription completed. Processing segments"]
    IN [processing_jobs |-> RecordAfter(NewJobRecord, t),
        tracker |-> t,
        pc |-> "tr_return",
        req |-> [language |-> "english", create_video |-> FALSE, font_color |-> DefaultColor],
        vp |-> [ffmpeg_available |-> TRUE, moviepy_available |-> FALSE],
        tl |-> IF failed
               THEN [NewLocals EXCEPT !.error = "Error transcribing audio: engine failure"]
               ELSE [NewLocals EXCEPT !.srt_content = SpokenDocument],
        ret |-> NewReturn,
        fs |-> [NewFiles EXCEPT !.audio = TRUE],
        bl |-> NewBurn,
        burnLog |-> <<>>,
        engineLog |-> <<EngineCall("full", "en", 0)>>,
        extractLog |-> <<Attempt("ffmpeg", TRUE)>>,
        stageLog |-> 4]

\* job j is in the state e of a worker
AtEntry(j, e) ==
    /\ j \in DOMAIN processing_jobs
    /\ processing_jobs[j] = e.processing_jobs
    /\ tracker[j] = e.tracker
    /\ pc[j] = e.pc
    /\ req[j] = e.req
    /\ vp[j] = e.vp
    /\ tl[j] = e.tl
    /\ ret[j] = e.ret
    /\ fs[j] = e.fs
    /\ bl[j] = e.bl
    /\ burnLog[j] = e.burnLog
    /\ engineLog[j] = e.engineLog
    /\ extractLog[j] = e.extractLog
    /\ stageLog[j] = e.stageLog

RecordsDocumentReachable == AtEntry("j1", RecordsEntry(FALSE))

RecordsFailureReachable == AtEntry("j1", RecordsEntry(TRUE))

InitRecords ==
    \E failed \in [Jobs -> BOOLEAN] :
       /\ processing_jobs = [j \in Jobs |-> RecordsEntry(failed[j]).processing_jobs]
       /\ tracker = [j \in Jobs |-> RecordsEntry(failed[j]).tracker]
       /\ pc = [j \in Jobs |-> RecordsEntry(failed[j]).pc]
       /\ req = [j \in Jobs |-> RecordsEntry(failed[j]).req]
       /\ vp = [j \in Jobs |-> RecordsEntry(failed[j]).vp]
       /\ tl = [j \in Jobs |-> RecordsEntry(failed[j]).tl]
       /\ ret = [j \in Jobs |-> RecordsEntry(failed[j]).ret]
       /\ fs = [j \in Jobs |-> RecordsEntry(failed[j]).fs]
       /\ temp_srt = "none"
       /\ bl = [j \in Jobs |-> RecordsEntry(failed[j]).bl]
       /\ burnLog = [j \in Jobs |-> RecordsEntry(failed[j]).burnLog]
       /\ engineLog = [j \in Jobs |-> RecordsEntry(failed[j]).engineLog]
       /\ extractLog = [j \in Jobs |-> RecordsEntry(failed[j]).extractLog]
       /\ stageLog = [j \in Jobs |-> RecordsEntry(failed[j]).stageLog]
       /\ response = [job |-> "none", body |-> [type |-> "none"]]

\* the steps the two workers have left, interleaved with polls of either id
NextRecords ==
    \/ \E j \in Jobs :
          /\ \/ tr_return(j) \/ pvc_cb_saved(j) \/ pvc_cb_done(j)
             \/ bg_return(j) \/ bg_completed(j) \/ bg_error(j)
          /\ UNCHANGED response
    \/ \E j \in Jobs : Poll(j)

SpecRecords == InitRecords /\ [][NextRecords]_vars

-----------------------------------------------------------------------------
(* Polls read by read against the worker's writes: job j1 is about to burn *)
(* the subtitles in, or is at the return of transcribe_audio_local with or *)
(* without a document and no video requested; its id is polled at any      *)
(* time, and the worker may write between any two reads of the handler.    *)

InitPoll ==
    \E e \in {BurnEntry, RecordsEntry(FALSE), RecordsEntry(TRUE)} :
       /\ processing_jobs = [j \in {"j1"} |-> e.processing_jobs]
       /\ tracker = [j \in Jobs |-> IF j = "j1" THEN e.tracker ELSE NewTracker]
       /\ pc = [j \in Jobs |-> IF j = "j1" THEN e.pc ELSE "idle"]
       /\ req = [j \in Jobs |-> IF j = "j1" THEN e.req
                                ELSE [language |-> "auto", create_video |-> FALSE, font_color |-> DefaultColor]]
       /\ vp = [j \in Jobs |-> IF j = "j1" THEN e.vp ELSE NoTranscoder]
       /\ tl = [j \in Jobs |-> IF j = "j1" THEN e.tl ELSE NewLocals]
       /\ ret = [j \in Jobs |-> NewReturn]
       /\ fs = [j \in Jobs |-> IF j = "j1" THEN e.fs ELSE NewFiles]
       /\ temp_srt = "none"
       /\ bl = [j \in Jobs |-> NewBurn]
       /\ burnLog = [j \in Jobs |-> <<>>]
       /\ engineLog = [j \in Jobs |-> IF j = "j1" THEN e.engineLog ELSE <<>>]
       /\ extractLog = [j \in Jobs |-> IF j = "j1" THEN e.extractLog ELSE <<>>]
       /\ stageLog = [j \in Jobs |-> IF j = "j1" THEN e.stageLog ELSE 0]
       /\ response = [job |-> "none", body |-> [type |-> "none"]]

NextPoll ==
    \/ /\ \/ tr_return("j1") \/ pvc_cb_saved("j1") \/ BurnIn("j1")
          \/ Completion("j1") \/ Failure("j1")
       /\ UNCHANGED response
    \/ poll_check("j1") \/ poll_read("j1") \/ poll_respond("j1")

SpecPoll == InitPoll /\ [][NextPoll]_vars

-----------------------------------------------------------------------------
(* The serializer on every engine result of at most MaxSegs segments over  *)
(* texts of every kind its filters tell apart: job j1, with an explicit    *)
(* language and no video requested, is about to run the primary pass.      *)
(* SerializeEntryReachable states that Spec brings job j1 to this state.   *)

\* speech, a lone full stop, digits, a short Latin word, Devanagari of
\* length 1 and 2, a run of dashes, a lone digit, a word before spaced
\* full stops
SerializerTexts ==
    {SpokenText, NoiseText, <<"1", "1", "1">>, <<"a", "n">>, <<"dv">>,
     <<"1", "dv">>, <<"-", "-", "-">>, <<"1">>,
     <<"a", "n", "a", ".", ".", " ", ".">>}

\* the start and end, in milliseconds, of the timed segments: below one
\* second, across the second, the hour and one hundred hours, of no
\* duration, negative, and no number
SerializerTimes ==
    {<<0, 999>>, <<1001, 1003>>, <<3599999, 3600000>>, <<360000001, 360000999>>,
     <<1500, 1500>>, <<-1500, 1500>>, <<NotANumber, 1500>>}

\* confident segments: every text over the span of Seg, speech over every
\* span of SerializerTimes
SerializerSegments ==
    {Seg(text, -5) : text \in SerializerTexts}
        \cup {[Seg(SpokenText, -5) EXCEPT !.start = span[1], !.end = span[2]] :
                 span \in SerializerTimes}

\* every result with at most n confident segments
SerializerResults(n) ==
    {[has_segments |-> TRUE, segments |-> segs] :
        segs \in SeqsUpTo(SerializerSegments, n)}

SerializeEntry(language) ==
    LET t == [NewTracker EXCEPT !.progress = 45, !.current_step = "Processing",
                                !.message = "Running primary transcription pass"]
    IN [processing_jobs |-> RecordAfter(NewJobRecord, t),
        tracker |-> t,
        pc |-> "tr_primary",
        req |-> [language |-> language, create_video |-> FALSE, font_color |-> DefaultColor],
        vp |-> [ffmpeg_available |-> TRUE, moviepy_available |-> FALSE],
        tl |-> [NewLocals EXCEPT !.language = MapLanguage(language)],
        ret |-> NewReturn,
        fs |-> [NewFiles EXCEPT !.audio = TRUE],
        bl |-> NewBurn,
        burnLog |-> <<>>,
        engineLog |-> <<>>,
        extractLog |-> <<Attempt("ffmpeg", TRUE)>>,
        stageLog |-> 4]

SerializeEntryReachable == AtEntry("j1", SerializeEntry("hindi"))

InitSerialize ==
    \E language \in {"hindi", "english"} :
       LET e == SerializeEntry(language)
       IN /\ processing_jobs = [j \in {"j1"} |-> e.processing_jobs]
          /\ tracker = [j \in Jobs |-> IF j = "j1" THEN e.tracker ELSE NewTracker]
          /\ pc = [j \in Jobs |-> IF j = "j1" THEN e.pc ELSE "idle"]
          /\ req = [j \in Jobs |-> IF j = "j1" THEN e.req
                                   ELSE [language |-> "auto", create_video |-> FALSE, font_color |-> DefaultColor]]
          /\ vp = [j \in Jobs |-> IF j = "j1" THEN e.vp ELSE NoTranscoder]
          /\ tl = [j \in Jobs |-> IF j = "j1" THEN e.tl ELSE NewLocals]
          /\ ret = [j \in Jobs |-> NewReturn]
          /\ fs = [j \in Jobs |-> IF j = "j1" THEN e.fs ELSE NewFiles]
          /\ temp_srt = "none"
          /\ bl = [j \in Jobs |-> NewBurn]
          /\ burnLog = [j \in Jobs |-> <<>>]
          /\ engineLog = [j \in Jobs |-> <<>>]
          /\ extractLog = [j \in Jobs |-> IF j = "j1" THEN e.extractLog ELSE <<>>]
          /\ stageLog = [j \in Jobs |-> IF j = "j1" THEN e.stageLog ELSE 0]
          /\ response = [job |-> "none", body |-> [type |-> "none"]]

\* the primary pass, the serializer and the write of captions.srt
NextSerialize ==
    /\ \/ tr_primary("j1", SerializerResults(MaxSegs)) \/ tr_confidence("j1")
       \/ tr_done_cb("j1") \/ tr_post("j1") \/ tr_return("j1")
       \/ pvc_cb_saved("j1")
    /\ UNCHANGED response

SpecSerialize == InitSerialize /\ [][NextSerialize]_vars

-----------------------------------------------------------------------------
(* The properties *)

\* C1 (SpecBurn): for every job the transcoder runs of the cascade are in
\* the order styled-overlay on captions.ass, direct-overlay on captions.srt,
\* co-located-file on temp_subtitles.srt, raw-path on captions.srt; a run
\* is followed by a later strategy's run only if it did not exit 0; and a
\* cascade that returned after a run that exited 0 returned success.
C1_CascadeOrder ==
    \A j \in Jobs :
        LET log == burnLog[j]
        IN /\ \A i \in 1..Len(log) :
                 /\ log[i].strategy \in 1..4
                 /\ log[i].strategy = 1 => log[i].subtitle = "ass"
                 /\ log[i].strategy \in {2, 4} => log[i].subtitle = "srt"
                 /\ log[i].strategy = 3 => log[i].subtitle \in Jobs \cup {"none"}
           /\ \A i \in 1..(Len(log) - 1) :
                 /\ log[i].strategy < log[i + 1].strategy
                 /\ ~log[i].ok
           /\ (bl[j].returned /\ \E i \in 1..Len(log) : log[i].ok) => bl[j].success

\* C2 (SpecTranscribe): the retry pass is about to be made only when the
\* resolved language is 'hi' and the primary result's mean avg_logprob is
\* below -0.8, and it is skipped only when that is not so; the retry call
\* has no language and temperature 0.2; there are never more than two full
\* transcription calls.
C2_RetryIffLowConfidenceHindi ==
    LET t == tl["j1"]
        log == engineLog["j1"]
        full == {i \in 1..Len(log) : log[i].kind = "full"}
        primary == IF t.retried THEN t.first ELSE t.result
        low == SumLogprob(primary.segments) < -8 * Max(Len(primary.segments), 1)
    IN /\ Cardinality(full) <= 2
       /\ \A i \in full, k \in full : i < k => log[k] = EngineCall("full", "None", 2)
       /\ pc["j1"] = "tr_retry" => t.language = "hi" /\ low /\ Cardinality(full) = 1
       /\ pc["j1"] = "tr_done_cb" =>
             /\ t.retried <=> (t.language = "hi" /\ low)
             /\ Cardinality(full) = IF t.retried THEN 2 ELSE 1

\* C2's case: a low-confidence Hindi result was retried, with two full calls
C2_Retried ==
    /\ pc["j1"] = "tr_done_cb"
    /\ tl["j1"].retried
    /\ Len(engineLog["j1"]) >= 2
    /\ engineLog["j1"][Len(engineLog["j1"])] = EngineCall("full", "None", 2)

\* C3 (SpecTranscribe): after a retry pass the result handed to
\* post-processing is the retry's result if the retry's mean avg_logprob is
\* strictly greater than the primary's, and the primary result otherwise.
C3_AdoptIffStrictlyBetter ==
    LET t == tl["j1"]
        greater == SumLogprob(t.result_alt.segments) * Max(Len(t.first.segments), 1)
                     > SumLogprob(t.first.segments) * Max(Len(t.result_alt.segments), 1)
    IN (pc["j1"] \in {"tr_done_cb", "tr_post"} /\ t.retried) =>
          t.result = IF greater THEN t.result_alt ELSE t.first

\* C3's case: the retry returned a different result of exactly the
\* primary's mean, and the primary result was kept
C3_EqualMeanKeepsPrimary ==
    LET t == tl["j1"]
    IN /\ pc["j1"] = "tr_post"
       /\ t.retried
       /\ t.result_alt # t.first
       /\ t.first.segments # <<>>
       /\ SumLogprob(t.result_alt.segments) * Len(t.first.segments)
             = SumLogprob(t.first.segments) * Len(t.result_alt.segments)
       /\ t.result = t.first

\* C4 (Spec): once a job record shows completed = true no step writes
\* completed = false to it, and no step changes whether its error is set.
C4_TerminalRecord ==
    [][\A j \in DOMAIN processing_jobs :
          processing_jobs[j].completed =>
             /\ processing_jobs'[j].completed
             /\ (processing_jobs'[j].error = "None") <=> (processing_jobs[j].error = "None")]_vars

\* C5 (Spec): when captions.srt was written, create_video was requested
\* and the burn-in returned without a video (failure, or no output file),
\* the job never takes the error path; once published its status is
\* 'complete' with the subtitle path set and videoCreated = false, and so
\* is every poll response of type 'complete' for it.
C5_BurnFailureKeepsSuccess ==
    \A j \in DOMAIN processing_jobs :
        LET noVideo == bl[j].returned /\ (~bl[j].success \/ fs[j].out = "none")
            status == get_job_status(j)
        IN (fs[j].srt_exists /\ req[j].create_video /\ noVideo) =>
              /\ pc[j] # "bg_error"
              /\ processing_jobs[j].error = "None"
              /\ pc[j] \in {"bg_completed", "done"} =>
                    /\ status.type = "complete"
                    /\ status.srtPath # "None"
                    /\ status.videoCreated = FALSE
              /\ response.job = j => response.body.type # "error"
              /\ (response.job = j /\ response.body.type = "complete") =>
                    /\ response.body.srtPath # "None"
                    /\ response.body.videoCreated = FALSE

\* C5's case: all four strategies ran and failed, and a poll of the
\* finished job answered 'complete'
C5_PolledAfterFailedCascade ==
    /\ pc["j1"] = "done"
    /\ Len(burnLog["j1"]) = 4
    /\ bl["j1"].returned /\ ~bl["j1"].success
    /\ response.job = "j1"
    /\ response.body.type = "complete"

\* C6 (Spec): when the cascade has returned, neither captions.ass nor
\* temp_subtitles.srt exists.
C6_NoTemporaryLeft ==
    \A j \in Jobs : bl[j].returned => ~fs[j].ass /\ temp_srt = "none"

\* C7 (Spec): a cascade that returned success left a non-empty output video.
C7_SuccessHasOutput ==
    \A j \in Jobs : (bl[j].returned /\ bl[j].success) => fs[j].out = "full"

\* C8 (Spec): with the transcoder detected as unavailable the cascade
\* enters no strategy, runs no transcoder command, creates neither
\* captions.ass nor temp_subtitles.srt, and returns failure.
C8_UnavailableShortCircuits ==
    \A j \in Jobs :
        ~vp[j].ffmpeg_available =>
           /\ pc[j] \notin {"b1_cb", "b1_ass", "b1_cb_run", "b1_run", "b2_cb", "b2_cb_run",
                            "b2_run", "b3_cb", "b3_copy", "b3_run", "b3_exists",
                            "b3_remove", "b3_result", "b4_cb", "b4_run", "b_failed"}
           /\ burnLog[j] = <<>>
           /\ ~fs[j].ass
           /\ temp_srt # j
           /\ bl[j].returned => ~bl[j].success

\* C8's case: the audio was extracted without the transcoder, the subtitle
\* file was written, and the cascade was called and has returned
C8_ReturnedWithoutTranscoder ==
    /\ pc["j1"] = "cv_return"
    /\ ~vp["j1"].ffmpeg_available
    /\ fs["j1"].srt_exists
    /\ bl["j1"].returned

\* C9 (Spec): the stage of the step a job record shows is never earlier in
\* the order Accepted, Extracting, Classifying, Transcribing, BurningIn,
\* Completed/Failed than a stage the record has shown before (steps that
\* name no stage aside).
C9_StagesInOrder ==
    \A j \in DOMAIN processing_jobs :
        \/ StageRank(processing_jobs[j].current_step) = 0
        \/ StageRank(processing_jobs[j].current_step) >= stageLog[j]

\* C10 (Spec): an engine call has been made only with the audio extracted;
\* captions.srt exists only holding the document a full transcription
\* returned; the burn-in is entered, or has run, only with captions.srt
\* written and create_video requested.
C10_StagesSequential ==
    \A j \in Jobs :
        /\ engineLog[j] # <<>> => fs[j].audio
        /\ fs[j].srt_exists =>
              /\ tl[j].error = "None"
              /\ tl[j].srt_content # <<>>
              /\ fs[j].srt = tl[j].srt_content
              /\ \E i \in 1..Len(engineLog[j]) : engineLog[j][i].kind = "full"
        /\ (\/ pc[j] \in {"pvc_cb_step3", "cv_enter", "burn_enter", "b1_cb", "b1_ass",
                          "b1_cb_run", "b1_run", "b2_cb", "b2_cb_run", "b2_run", "b3_cb",
                          "b3_copy", "b3_run", "b3_exists", "b3_remove", "b3_result",
                          "b4_cb", "b4_run", "b_failed", "cv_return"}
            \/ bl[j].returned
            \/ burnLog[j] # <<>>) => fs[j].srt_exists /\ req[j].create_video

\* C10's case: the cascade is running its first strategy
C10_BurnInRunning ==
    /\ pc["j1"] = "b1_run"
    /\ engineLog["j1"] # <<>>
    /\ fs["j1"].srt_exists

\* C11 (Spec): the pipeline returns the extraction failure only when no
\* attempt produced the audio and every method the processor has (FFmpeg
\* first, MoviePy second) was run and failed; the job then makes no engine
\* call, writes no captions.srt, goes straight to the error branch, and
\* its record's error is that failure.
C11_ExtractionFailureAborts ==
    \A j \in Jobs :
        LET log == extractLog[j]
            tried(method) == \E i \in 1..Len(log) : log[i] = Attempt(method, FALSE)
        IN /\ \A i \in 1..Len(log) :
                 /\ log[i].method \in {"ffmpeg", "moviepy"}
                 /\ log[i].method = "ffmpeg" => i = 1
                 /\ log[i].ok => i = Len(log)
           /\ ret[j].message = "Failed to extract audio from video" =>
                 /\ \A i \in 1..Len(log) : ~log[i].ok
                 /\ vp[j].ffmpeg_available => tried("ffmpeg")
                 /\ vp[j].moviepy_available => tried("moviepy")
                 /\ ~fs[j].audio
                 /\ engineLog[j] = <<>>
                 /\ ~fs[j].srt_exists
                 /\ ret[j].srt_path = "None"
                 /\ pc[j] \in {"bg_return", "bg_error", "done"}
                 /\ pc[j] \in {"bg_error", "done"} =>
                       processing_jobs[j].error = "Failed to extract audio from video"

\* C11's case: FFmpeg and MoviePy were both run, both failed, and the job
\* has ended
C11_BothMethodsFailed ==
    /\ pc["j1"] = "done"
    /\ extractLog["j1"] = <<Attempt("ffmpeg", FALSE), Attempt("moviepy", FALSE)>>
    /\ ret["j1"].message = "Failed to extract audio from video"

\* C12 (Spec): the step that validates and serializes the engine result
\* yields the no-segments error when the result has no segment data and
\* the empty-output error when no segment survives the filters, and no
\* document in either case; a job with one of these errors writes no
\* captions.srt, never enters the burn-in, and ends with that error in its
\* record and an 'error' status.
C12_NoSegmentsIsFatal ==
    /\ [](\A j \in Jobs :
            tl[j].error \in {"Error transcribing audio: Invalid transcription result - no segments found",
                             "Error transcribing audio: Generated SRT content is empty"} =>
               /\ tl[j].srt_content = <<>>
               /\ ~fs[j].srt_exists
               /\ burnLog[j] = <<>>
               /\ ~bl[j].returned
               /\ ret[j].srt_path = "None"
               /\ pc[j] \in {"tr_return", "bg_return", "bg_error", "done"}
               /\ pc[j] \in {"bg_error", "done"} =>
                     /\ processing_jobs[j].error = tl[j].error
                     /\ get_job_status(j).type = "error")
    /\ [][\A j \in Jobs :
            (pc[j] = "tr_post" /\ pc'[j] # "tr_post") =>
               LET result == tl[j].result
                   survivors == ConvertToSrt(PostProcessHindiHinglish(result, tl[j].language))
               IN /\ ~result.has_segments =>
                        tl'[j].error = "Error transcribing audio: Invalid transcription result - no segments found"
                  /\ (result.has_segments /\ survivors = <<>>) =>
                        tl'[j].error = "Error transcribing audio: Generated SRT content is empty"
                  /\ (~result.has_segments \/ survivors = <<>>) => tl'[j].srt_content = <<>>]_vars

\* C12's case: the engine returned only noise, and the job has ended
C12_EndedWithoutSurvivors ==
    /\ pc["j1"] = "done"
    /\ tl["j1"].error = "Error transcribing audio: Generated SRT content is empty"
    /\ "j1" \in DOMAIN processing_jobs
    /\ processing_jobs["j1"].error = tl["j1"].error

\* C13 (SpecTranscribe): when a retry pass was run and at least one segment
\* of the primary result survives post-processing and serialization, the
\* result that goes on has segment data and yields a non-empty document,
\* whatever the retry returned.
C13_RetryNeverLosesDocument ==
    LET t == tl["j1"]
        document(result) == ConvertToSrt(PostProcessHindiHinglish(result, t.language))
    IN (pc["j1"] = "tr_post" /\ t.retried /\ document(t.first) # <<>>) =>
          /\ t.result.has_segments
          /\ document(t.result) # <<>>

\* C14 (Spec): a job whose pipeline returned no subtitle path (input not
\* found, extraction failure, transcription error, unexpected exception)
\* has, from the error branch on, a non-empty error string in its record,
\* the pipeline's message; its status is of type 'error' with that string,
\* and so is every poll response of type 'error'.
C14_FailureCarriesMessage ==
    /\ \A j \in DOMAIN processing_jobs :
          (pc[j] \in {"bg_error", "done"} /\ ret[j].srt_path = "None") =>
             /\ ret[j].message \in {"Video file not found",
                                    "Error during processing",
                                    "Failed to extract audio from video",
                                    "Error transcribing audio: engine failure",
                                    "Error transcribing audio: Invalid transcription result - no segments found",
                                    "Error transcribing audio: Generated SRT content is empty"}
             /\ processing_jobs[j].error = ret[j].message
             /\ get_job_status(j).type = "error"
             /\ get_job_status(j).error = ret[j].message
    /\ response.body.type = "error" =>
          /\ response.job \in DOMAIN processing_jobs
          /\ response.body.error \notin {"None", ""}
          /\ response.body.error = processing_jobs[response.job].error

\* C14's case: a poll of a job that ended after an unexpected exception
\* answered 'error'
C14_PolledAfterException ==
    /\ pc["j1"] = "done"
    /\ ret["j1"].message = "Error during processing"
    /\ response.job = "j1"
    /\ response.body.type = "error"
    /\ response.body.completed = FALSE

\* C15 (SpecLive): an accepted job's record eventually shows, and from then
\* on keeps showing, a status of type 'complete' or 'error'.
C15_RunsToTerminalStatus ==
    (pc["j1"] # "idle") ~>
        [](/\ "j1" \in DOMAIN processing_jobs
           /\ get_job_status("j1").type \in {"complete", "error"})

\* C15's case: the job has ended through the error branch and its status
\* is terminal
C15_EndedTerminal ==
    /\ pc["j1"] = "done"
    /\ ~processing_jobs["j1"].completed
    /\ get_job_status("j1").type = "error"

\* the record of job id k; an id not handed out yet reads as an empty tracker
C16_Record(k) ==
    IF k \in DOMAIN processing_jobs THEN processing_jobs[k] ELSE NewTracker

\* C16: the owning worker is the sole writer of a job record.  In every
\* interleaving of two workers and the polls of both ids, a step of job j's
\* worker (the step that moves pc[j]) leaves the record of every other id as
\* it was, no record is ever removed, and a step that moves no worker, which
\* is a status poll, changes no record at all.
C16_OwnerIsSoleWriter ==
    [][/\ DOMAIN processing_jobs \subseteq DOMAIN processing_jobs'
       /\ \A j \in Jobs :
             pc'[j] # pc[j] =>
                \A k \in Jobs \ {j} : C16_Record(k)' = C16_Record(k)
       /\ pc' = pc => processing_jobs' = processing_jobs]_vars

\* both workers have ended, one with a published document and one with an
\* error, and a poll made while a job was running has been answered
C16_BothEndedAndPolled ==
    /\ pc = [j \in Jobs |-> "done"]
    /\ processing_jobs["j1"].completed
    /\ processing_jobs["j1"].srt_content = SpokenDocument
    /\ processing_jobs["j2"].error = "Error transcribing audio: engine failure"
    /\ response.job = "j2"
    /\ response.body.type = "progress"

\* the segments _convert_to_srt is handed by the step at tr_post
SerializerInput ==
    PostProcessHindiHinglish(tl["j1"].result, tl["j1"].language).segments

\* the text _convert_to_srt works on for a segment
CleanedText(seg) == CleanSubtitleText(Strip(seg.text))

\* C17: validate accepts every serialized document that has an entry.  The
\* step that serializes a result leaves either no document (an error) or one
\* that validate_srt_file accepts; the captions.srt the pipeline has written
\* is always accepted; and content without an entry is refused with the
\* reason "SRT file is empty".
C17_SerializedDocumentValidates ==
    /\ [](/\ fs["j1"].srt_exists =>
                ValidateSrtFile(TRUE, fs["j1"].srt) = "SRT file is valid"
          /\ ValidateSrtFile(TRUE, <<>>) = "SRT file is empty")
    /\ [][pc["j1"] = "tr_post" =>
            \/ tl'["j1"].srt_content = <<>> /\ tl'["j1"].error # "None"
            \/ /\ tl'["j1"].srt_content # <<>>
               /\ ValidateSrtFile(TRUE, tl'["j1"].srt_content) = "SRT file is valid"]_vars

\* a document of two entries, the second a single Devanagari character,
\* has been written to captions.srt and validates
C17_DocumentPersisted ==
    /\ pc["j1"] = "pvc_cb_saved"
    /\ fs["j1"].srt_exists
    /\ Len(fs["j1"].srt) = 2
    /\ fs["j1"].srt[2].text = <<"dv">>
    /\ ValidateSrtFile(fs["j1"].srt_exists, fs["j1"].srt) = "SRT file is valid"

\* C18: the entries of the serialized document are numbered 1, 2, ..., n in
\* order, n being the number of segments that survived the filters,
\* whichever segments were dropped.
C18_NumbersAreContiguous ==
    [][pc["j1"] = "tr_post" =>
          LET document == tl'["j1"].srt_content
              kept == {k \in 1..Len(SerializerInput) :
                          ~IsNoise(CleanedText(SerializerInput[k]))}
          IN /\ Len(document) = Cardinality(kept)
             /\ \A i \in 1..Len(document) : document[i].number = i]_vars

\* the serializer is about to drop the first segment of a result and to
\* number the entry of the second one 1
C18_DroppedBeforeKept ==
    /\ pc["j1"] = "tr_post"
    /\ Len(tl["j1"].result.segments) = 2
    /\ IsNoise(CleanedText(SerializerInput[1]))
    /\ ~IsNoise(CleanedText(SerializerInput[2]))
    /\ Len(Processed(tl["j1"]).srt_content) = 1
    /\ Processed(tl["j1"]).srt_content[1].number = 1

\* a text without a letter of any script: punctuation, digits and spaces
IsFiller(text) ==
    \A i \in 1..Len(text) :
        text[i] \notin LowerChars \cup UpperChars \cup DevanagariChars

\* C19: a segment whose cleaned text holds only punctuation, digits and
\* whitespace yields no entry, whatever its length: no entry of a serialized
\* document has such a text.
C19_FillerIsDropped ==
    [][pc["j1"] = "tr_post" =>
          \A i \in 1..Len(tl'["j1"].srt_content) :
              ~IsFiller(tl'["j1"].srt_content[i].text)]_vars

\* C20: a segment whose cleaned text is shorter than 3 characters and has
\* no Devanagari character yields no entry, and a segment whose cleaned text
\* has a Devanagari character yields one, also at length 1 or 2.
C20_ShortTextRule ==
    [][pc["j1"] = "tr_post" =>
          LET texts == {tl'["j1"].srt_content[i].text :
                           i \in 1..Len(tl'["j1"].srt_content)}
          IN \A k \in 1..Len(SerializerInput) :
                LET text == CleanedText(SerializerInput[k])
                IN /\ (Len(text) < 3 /\ ~HasDevanagari(text)) => text \notin texts
                   /\ HasDevanagari(text) => text \in texts]_vars

\* the serializer is about to drop a two-letter Latin text and to emit a
\* text that is a single Devanagari character
C20_ShortLatinAndShortDevanagari ==
    /\ pc["j1"] = "tr_post"
    /\ Len(tl["j1"].result.segments) = 2
    /\ Len(CleanedText(SerializerInput[1])) = 2
    /\ ~HasDevanagari(CleanedText(SerializerInput[1]))
    /\ CleanedText(SerializerInput[2]) = <<"dv">>
    /\ Len(Processed(tl["j1"]).srt_content) = 1
    /\ Processed(tl["j1"]).srt_content[1].text = <<"dv">>

\* the time, in milliseconds, that the fields of a timestamp spell
ParseTimestamp(stamp) ==
    ((stamp.hours * 60 + stamp.minutes) * 60 + stamp.secs) * 1000 + stamp.millisecs

\* the segment yields an entry
IsKept(seg) == ~IsNoise(CleanedText(seg))

\* the segments of the serializer's input that yield the entries, in order
KeptInput == SelectSeq(SerializerInput, IsKept)

\* C21: every entry of the subtitle document has a non-empty text and a
\* start before its end, in the document transcription returns and in the
\* one written to captions.srt.
C21_EntriesAreWellFormed ==
    \A j \in Jobs :
       \A document \in {tl[j].srt_content, fs[j].srt} :
          \A i \in 1..Len(document) :
             /\ document[i].text # <<>>
             /\ ParseTimestamp(document[i].start) < ParseTimestamp(document[i].end)

\* C22: a time t >= 0 is formatted to fields that spell t within one
\* millisecond, with minutes and seconds in 0..59 and milliseconds in
\* 0..999, for the times of the model up to one hundred hours and beyond.
C22_TimestampRoundTrip ==
    [][pc["j1"] = "tr_post" =>
          LET document == tl'["j1"].srt_content
          IN /\ Len(document) = Len(KeptInput)
             /\ \A i \in 1..Len(document) :
                   \A side \in {<<KeptInput[i].start, document[i].start>>,
                                <<KeptInput[i].end, document[i].end>>} :
                      LET t == side[1]
                          stamp == side[2]
                      IN (t # NotANumber /\ t >= 0) =>
                            /\ ParseTimestamp(stamp) \in (t - 1)..(t + 1)
                            /\ stamp.minutes \in 0..59
                            /\ stamp.secs \in 0..59
                            /\ stamp.millisecs \in 0..999]_vars

\* the serializer is about to format a start of one hundred hours and one
\* millisecond, which it renders as 100:00:00,000
C22_BeyondHundredHours ==
    /\ pc["j1"] = "tr_post"
    /\ Len(tl["j1"].result.segments) >= 1
    /\ tl["j1"].result.segments[1].start = 360000001
    /\ Processed(tl["j1"]).srt_content[1].start =
          [hours |-> 100, minutes |-> 0, secs |-> 0, millisecs |-> 0]
    /\ Processed(tl["j1"]).srt_content[1].end =
          [hours |-> 100, minutes |-> 0, secs |-> 0, millisecs |-> 999]

\* C23: a start or end that is negative or no number is rendered as
\* 00:00:00,000, and the serializer goes on: the document has an entry for
\* every segment that survives the filters and no error is returned.
C23_InvalidTimeIsZero ==
    [][pc["j1"] = "tr_post" =>
          LET document == tl'["j1"].srt_content
          IN /\ Len(document) = Len(KeptInput)
             /\ KeptInput # <<>> => tl'["j1"].error = "None"
             /\ \A i \in 1..Len(document) :
                   \A side \in {<<KeptInput[i].start, document[i].start>>,
                                <<KeptInput[i].end, document[i].end>>} :
                      (side[1] = NotANumber \/ side[1] < 0) =>
                          side[2] = [hours |-> 0, minutes |-> 0, secs |-> 0,
                                     millisecs |-> 0]]_vars

\* the serializer is about to emit two entries, one for a segment with a
\* negative start and one for a segment whose start is no number
C23_NegativeAndNoNumber ==
    /\ pc["j1"] = "tr_post"
    /\ Len(tl["j1"].result.segments) >= 2
    /\ tl["j1"].result.segments[1].start < 0
    /\ tl["j1"].result.segments[2].start = NotANumber
    /\ Len(Processed(tl["j1"]).srt_content) >= 2
    /\ Processed(tl["j1"]).srt_content[2].number = 2
    /\ ParseTimestamp(Processed(tl["j1"]).srt_content[2].start) = 0

\* C24: text normalization is idempotent.  For every segment text the
\* engine returns, _fix_hindi_hinglish_errors applied to its own output
\* gives that output again, and so does _clean_subtitle_text.
C24_NormalizationIsIdempotent ==
    pc["j1"] = "tr_post" =>
       \A k \in 1..Len(tl["j1"].result.segments) :
          LET fixed == FixHindiHinglishErrors(Strip(tl["j1"].result.segments[k].text))
              cleaned == CleanSubtitleText(Strip(fixed))
          IN /\ FixHindiHinglishErrors(fixed) = fixed
             /\ CleanSubtitleText(cleaned) = cleaned

\* C25: the classifier's decision, first match wins.  With Hindi evidence
\* (engine tag 'hi' or more than 10 Devanagari characters) the sample is
\* 'hindi' when Devanagari exceeds 30% of its length and 'hinglish'
\* otherwise; without it, 'hinglish' when more than 3 lexicon words or one of
\* the six tokens occur, and 'english' otherwise.  The decision is reported
\* under the type's name and returns the type's model code.
C25_ClassifierPolicy ==
    [][pc["j1"] = "det_decide" =>
          LET sample == tl["j1"].sample
              family == sample.g = "hi" \/ sample.script > 10
              dense == 10 * sample.script > 3 * sample.len
              romanized == sample.words > 3 \/ sample.token
              reported == tracker'["j1"].message
              code == tl'["j1"].language
          IN /\ (family /\ dense) =>
                   reported = "Detected language: Hindi" /\ code = "hi"
             /\ (family /\ ~dense) =>
                   reported = "Detected language: Hinglish" /\ code = "hi"
             /\ (~family /\ romanized) =>
                   reported = "Detected language: Hinglish" /\ code = "hi"
             /\ (~family /\ ~romanized) =>
                   reported = "Detected language: English" /\ code = "en"]_vars

\* a sample tagged 'en' with 5% Devanagari and four lexicon words has been
\* read and is about to be classified
C25_RomanizedSample ==
    /\ pc["j1"] = "det_decide"
    /\ tl["j1"].sample = [g |-> "en", len |-> 40, script |-> 2, words |-> 4,
                          token |-> FALSE]
    /\ DetectLanguageType(tl["j1"].sample) = "hinglish"

\* C26: an engine error in the classifier's quick pass fails nothing.  The
\* step in which the quick pass raises leaves the Hindi model code as the
\* language, no error and no report; from there the worker reports the
\* primary pass and runs it with the Hindi model code.
C26_ClassifierErrorIsSwallowed ==
    [][/\ (pc["j1"] = "det_call" /\ pc'["j1"] # "det_decide") =>
             /\ pc'["j1"] = "tr_primary_cb"
             /\ tl'["j1"].language = "hi"
             /\ tl'["j1"].error = "None"
             /\ tracker'["j1"] = tracker["j1"]
       /\ (pc["j1"] = "tr_primary_cb"
               /\ tracker["j1"].message = "Detecting language type") =>
             /\ pc'["j1"] = "tr_primary"
             /\ tl'["j1"] = tl["j1"]
       /\ (pc["j1"] = "tr_primary" /\ req["j1"].language = "auto") =>
             /\ engineLog'["j1"] = <<EngineCall("sample", "None", 0),
                                     EngineCall("full", tl["j1"].language, 0)>>
             /\ pc'["j1"] \in {"tr_confidence", "tr_return"}]_vars

\* the quick pass has raised: nothing was reported after "Detecting language
\* type", and the worker is about to report the primary pass with the Hindi
\* model code as the language
C26_AfterClassifierError ==
    /\ pc["j1"] = "tr_primary_cb"
    /\ tracker["j1"].message = "Detecting language type"
    /\ engineLog["j1"] = <<EngineCall("sample", "None", 0)>>
    /\ tl["j1"].language = "hi"
    /\ tl["j1"].error = "None"

\* the text of an engine segment passes the text filters of post-processing
\* and of the serializer
SurvivesTextFilters(seg) ==
    ~IsNoise(CleanSubtitleText(Strip(FixHindiHinglishErrors(Strip(seg.text)))))

\* the language option the claim gives for an explicit language; "None"
\* when the engine is called without one
C27_ExpectedOption(language) ==
    CASE language \in {"hindi", "hinglish"} -> "hi"
      [] language = "english" -> "en"
      [] language = "" -> "None"
      [] OTHER -> language

C28_ConfidenceFilter ==
    [][pc["j1"] = "tr_post" =>
          LET segs == tl["j1"].result.segments
              confident == {k \in 1..Len(segs) : segs[k].avg_logprob >= -15}
              spoken == {k \in 1..Len(segs) : SurvivesTextFilters(segs[k])}
          IN Len(tl'["j1"].srt_content) =
                IF tl["j1"].language = "hi"
                THEN Cardinality(spoken \cap confident)
                ELSE Cardinality(spoken)]_vars

\* the adopted retry result holds a segment of confidence -1.6 before one of
\* -0.5, the language is 'hi', and the serializer is about to emit one entry
C28_RetryWithHallucination ==
    /\ pc["j1"] = "tr_post"
    /\ tl["j1"].language = "hi"
    /\ tl["j1"].retried
    /\ tl["j1"].result = tl["j1"].result_alt
    /\ tl["j1"].result # tl["j1"].first
    /\ Len(tl["j1"].result.segments) = 2
    /\ tl["j1"].result.segments[1].avg_logprob = -16
    /\ tl["j1"].result.segments[2].avg_logprob = -5
    /\ Len(Processed(tl["j1"]).srt_content) = 1

\* the hexadecimal digits
HexDigits ==
    {"0", "1", "2", "3", "4", "5", "6", "7", "8", "9",
     "a", "b", "c", "d", "e", "f", "A", "B", "C", "D", "E", "F"}

\* '#RRGGBB'
IsHexColor(color) ==
    /\ Len(color) = 7
    /\ color[1] = "#"
    /\ \A i \in 2..7 : color[i] \in HexDigits

\* the hex equivalent of a palette name, the names taken without regard to
\* case; <<>> for any other input
HexEquivalent(color) ==
    LET name == [i \in 1..Len(color) |-> Lower(color[i])]
    IN CASE name = <<"w", "h", "i", "t", "e">> -> <<"#", "f", "f", "f", "f", "f", "f">>
         [] name = <<"b", "l", "a", "c", "k">> -> <<"#", "0", "0", "0", "0", "0", "0">>
         [] name = <<"r", "e", "d">> -> <<"#", "f", "f", "0", "0", "0", "0">>
         [] name = <<"g", "r", "e", "e", "n">> -> <<"#", "0", "0", "f", "f", "0", "0">>
         [] name = <<"b", "l", "u", "e">> -> <<"#", "0", "0", "0", "0", "f", "f">>
         [] name = <<"y", "e", "l", "l", "o", "w">> -> <<"#", "f", "f", "f", "f", "0", "0">>
         [] OTHER -> <<>>

StrategyFailureReports ==
    {"ASS styling method failed", "ASS method timed out, trying fallback",
     "ASS method error", "Simple method failed",
     "Simple method timed out, trying alternative", "Simple method error",
     "Copied SRT method error", "Copied SRT method failed",
     "ASS filter failed", "ASS filter error"}

\* C30: each of the four strategies that fails produces a failure report:
\* the step in which the cascade gives a strategy up, for the next one or
\* for the aggregate failure, reports one of the per-strategy failures.
\* Violated by the styled-overlay strategy when the style document could
\* not be created.
C30_EveryFailedStrategyReports ==
    [][\A j \in Jobs :
          (pc'[j] # pc[j] /\ pc'[j] \in {"b2_cb", "b3_cb", "b4_cb", "b_failed"}) =>
              /\ tracker'[j].message \in StrategyFailureReports
              /\ processing_jobs'[j].message = tracker'[j].message]_vars

\* C31: when process_video_with_captions has returned, with any outcome,
\* extracted_audio.wav no longer exists in the job's output directory.
\* Violated: nothing in the pipeline removes the extracted audio.
C31_AudioIsRemoved ==
    \A j \in Jobs : pc[j] = "bg_return" => ~fs[j].audio

\* C32: a timeout of a burn-in attempt is that attempt's failure and nothing
\* more.  When the transcoder run of strategy 1, 2 or 3 times out, the
\* cascade goes on to the next strategy without returning; when the run of
\* strategy 4 times out, the cascade reports the aggregate failure and
\* burn_subtitles_to_video returns False.  (Strategies 3 and 4 catch the
\* timeout with every other exception of the run.)
C32_TimeoutIsAttemptFailure ==
    [][\A j \in Jobs :
          /\ (pc[j] = "b1_run"
                /\ tracker'[j].message = "ASS method timed out, trying fallback") =>
                (pc'[j] = "b2_cb" /\ ~bl'[j].returned)
          /\ (pc[j] = "b2_run"
                /\ tracker'[j].message = "Simple method timed out, trying alternative") =>
                (pc'[j] = "b3_cb" /\ ~bl'[j].returned)
          /\ (pc[j] = "b3_run" /\ tracker'[j].message = "Copied SRT method error") =>
                (pc'[j] = "b4_cb" /\ ~bl'[j].returned)
          /\ (pc[j] = "b4_run" /\ tracker'[j].message = "ASS filter error") =>
                (pc'[j] = "b_failed" /\ ~bl'[j].returned)
          /\ pc[j] = "b_failed" =>
                /\ tracker'[j].message = "All subtitle burning methods failed"
                /\ bl'[j].returned /\ ~bl'[j].success
                /\ pc'[j] = "cv_return"]_vars

\* the run of strategy 4 has timed out after those of strategies 1 and 2
\* failed and that of strategy 3 raised, leaving its copy behind
C32_FourthStrategyTimedOut ==
    /\ pc["j1"] = "b_failed"
    /\ tracker["j1"].message = "ASS filter error"
    /\ Len(burnLog["j1"]) = 4
    /\ \A i \in 1..4 : burnLog["j1"][i].strategy = i /\ ~burnLog["j1"][i].ok
    /\ temp_srt = "j1"

\* C33: the job record is created at acceptance, before the worker starts.
\* The records are those of the accepted ids at every moment; a status poll
\* creates no record, and it reports 'Job not found' exactly for an id that
\* has not been handed out, whatever the worker has done in between.
C33_RecordFromAcceptance ==
    /\ [](DOMAIN processing_jobs = {j \in Jobs : pc[j] # "idle"})
    /\ [][\A j \in Jobs :
             (response' # response /\ response'.job = j) =>
                 /\ DOMAIN processing_jobs' = DOMAIN processing_jobs
                 /\ (response'.body.type = "not found") <=> (pc[j] = "idle")]_vars

\* the id of j1 has been returned, its worker has not taken a step yet, a
\* poll has found the record as created at acceptance, and there is no
\* record for the id that was never returned
C33_PolledBeforeWorkerStarts ==
    /\ pc["j1"] = "bg_start"
    /\ response.job = "j1"
    /\ response.body.type = "progress"
    /\ response.body.current_step = "Initializing"
    /\ "j2" \notin DOMAIN processing_jobs

\* C34: a poller never observes a half-published success.  Whatever the
\* worker writes between the reads of a status poll, a response of type
\* 'complete' carries the subtitle document path and the subtitle content,
\* and its videoCreated is true exactly when it carries a video path.
C34_CompleteIsWhole ==
    response.body.type = "complete" =>
        /\ response.body.srtPath # "None"
        /\ response.body.srtContent = fs[response.job].srt
        /\ fs[response.job].srt # <<>>
        /\ response.body.videoCreated <=> (response.body.videoWithSubtitles # "None")

\* a poll has answered 'complete' with a video between the worker's
\* publication of the results and its last progress update
C34_PolledBetweenWrites ==
    /\ pc["j1"] = "bg_completed"
    /\ response.job = "j1"
    /\ response.body.type = "complete"
    /\ response.body.videoCreated
    /\ response.body.message = "Success"

\* C35: concurrent jobs do not interfere through temporary files.  The
\* subtitle copy read by a job's run of the co-located-file strategy is that
\* job's own document.  Violated: temp_subtitles.srt is one path for all the
\* jobs, whose videos share the upload folder.
C35_OwnCopyIsRead ==
    \A j \in Jobs :
        \A i \in 1..Len(burnLog[j]) :
            burnLog[j][i].strategy = 3 => burnLog[j][i].subtitle = j

\* C36: the progress percentage of a job record never decreases, and it is
\* 100 once the job is completed successfully.  Violated on the first
\* conjunct: with language auto-detection the record goes from 45 back to 35.
C36_ProgressNeverDecreases ==
    /\ [](\A j \in DOMAIN processing_jobs :
             (processing_jobs[j].completed /\ processing_jobs[j].error = "None") =>
                 processing_jobs[j].progress = 100)
    /\ [][\A j \in DOMAIN processing_jobs :
             processing_jobs'[j].progress >= processing_jobs[j].progress]_vars

\* the subtitle file does not pass the validation named by the claim: it is
\* missing, or it has fewer than three lines (none when empty), or its
\* first line is not a number, or none of its first ten lines is a timing
\* line
C37_FailsValidation(file) ==
    LET lines == SrtLines(file.srt)
    IN \/ ~file.srt_exists
       \/ Len(lines) < 3
       \/ lines[1].kind # "number"
       \/ lines[1].number < 0
       \/ ~\E i \in 1..Len(lines) : i <= 10 /\ lines[i].kind = "timing"

\* C37: if the subtitle file handed to burn_subtitles_to_video does not pass
\* validate_srt_file, the call reports the invalid file and returns failure
\* in that step: no strategy is attempted, the transcoder is not invoked,
\* and no file is created or removed.
C37_InvalidFileFailsEarly ==
    [][\A j \in Jobs :
          (pc[j] = "burn_enter" /\ vp[j].ffmpeg_available /\ C37_FailsValidation(fs[j])) =>
              /\ tracker'[j].message = "Invalid SRT file"
              /\ bl'[j].returned /\ ~bl'[j].success
              /\ pc'[j] = "cv_return"
              /\ burnLog'[j] = <<>>
              /\ fs' = fs
              /\ temp_srt' = temp_srt]_vars

\* burn_subtitles_to_video has returned failure for a file of four lines
\* whose first line is '-1', with no transcoder run and no temporary file
C37_RejectedFirstLine ==
    /\ pc["j1"] = "cv_return"
    /\ tracker["j1"].message = "Invalid SRT file"
    /\ fs["j1"].srt_exists
    /\ Len(SrtLines(fs["j1"].srt)) >= 3
    /\ fs["j1"].srt[1].number = -1
    /\ ~bl["j1"].success
    /\ burnLog["j1"] = <<>>
    /\ ~fs["j1"].ass
    /\ temp_srt = "none"

\* C38: the style document holds exactly one Dialogue event per entry of the
\* subtitle document, in the same order, with the line breaks of the text
\* replaced by \N.  Violated by an entry whose timestamps are at 100 hours
\* or more: it gets no event.
C38_OneEventPerEntry ==
    fs["j1"].ass =>
        LET entries == fs["j1"].srt
            events == fs["j1"].events
        IN /\ Len(events) = Len(entries)
           /\ \A i \in 1..Len(events) :
                 /\ events[i].start = AssTime(entries[i].start)
                 /\ events[i].end = AssTime(entries[i].end)
                 /\ Len(events[i].text) = Len(entries[i].text)
                 /\ \A k \in 1..Len(events[i].text) :
                       events[i].text[k] =
                          IF entries[i].text[k] = "\n" THEN "\\N" ELSE entries[i].text[k]

====
